---- MODULE Spec2Model ----
(***************************************************************************)
(* Model of thejamesm/family-tree: the kinship resolver (Family.kinship,   *)
(* Person.kinship_term) and the generational layout builder                *)
(* (Person.get_layers, Person._add_edge) over a genealogical database.     *)
(*                                                                         *)
(* Persons are the ids 1..NumPersons; 0 stands for Python's None.          *)
(***************************************************************************)
EXTENDS Integers, Sequences, FiniteSets, TLC

\* ------------------------------------------------------------------ bounds
NumPersons == 5
NumCyclic == 3
NumTermPersons == 4
MaxRels == 2
MaxShort == 4
MaxDiff == 4
NumLayerPersons == 4
NumDescentPersons == 7
NumChildPersons == 3
MaxChildDob == 2
MaxLayerRels == 1
NumEdgePersons == 3
MaxEdges == 3
NumSessionPersons == 3
MaxObjects == 3
NumRegistryPersons == 3
NumSpuriousPersons == 4
MaxSpuriousRels == 1
MaxRegistryRels == 1
MaxMemo == 2

Persons == 1..NumPersons
CyclicPersons == 1..NumCyclic
TermPersons == 1..NumTermPersons
LayerPersons == 1..NumLayerPersons
EdgePersons == 1..NumEdgePersons
SessionPersons == 1..NumSessionPersons
RegistryPersons == 1..NumRegistryPersons
SpuriousPersons == 1..NumSpuriousPersons
None == 0
\* Family.kinship's loop is cut off once a side holds this many layers: an
\* acyclic graph of NumPersons persons has at most NumPersons layers a side.
MaxLayers == NumPersons + 2
\* The recursion of the layer walks is cut off below this depth: on an acyclic
\* graph of NumLayerPersons persons no walk goes deeper than NumLayerPersons.
MaxWalkDepth == NumLayerPersons + 1

VARIABLES
    father,     \* people.father_id, per person (0: NULL)
    mother,     \* people.mother_id, per person (0: NULL)
    gender,     \* people.gender, per person: "male", "female" or "none"
    pc,         \* kinship call: "idle", "loop" (inside the while) or "done"
    person_a,   \* Family.kinship's first argument
    person_b,   \* Family.kinship's second argument
    a_ancs,     \* Family.kinship's a_ancs: sequence of layers (sequences)
    b_ancs,     \* Family.kinship's b_ancs
    a_done,     \* Family.kinship's a_done
    b_done,     \* Family.kinship's b_done
    result,     \* Family.kinship's return value: <<>> (None) or <<anc,deg,diff>>
    rels,       \* the relationships table, in the order of its id
    tpc,        \* kinship_term call: "idle" or "done"
    t_self,     \* Person.kinship_term's self
    t_person,   \* Person.kinship_term's argument
    term,       \* Person.kinship_term's return value
    short,      \* kinship_term's short: the degree of the kinship found
    diff,       \* kinship_term's diff: its generation difference
    tgender,    \* the gender the term is chosen for
    dob,        \* people.date_of_birth, per person (0: NULL)
    lpc,        \* get_layers call: "idle" or "done"
    l_subject,  \* Person.get_layers' self
    l_partners, \* its include_partners
    l_siblings, \* its include_siblings
    layers,     \* its return value, <<>> when it raised
    n_anc,      \* how many of the layers are ancestor layers
    lerr,       \* the exception it raised, "" for none
    spurious,   \* people.spurious, per person
    exclude_spurious,   \* Database.exclude_spurious
    father_of,  \* Person.father of the persons registered, per id (0: None)
    mother_of,  \* Person.mother of the persons registered
    epc,        \* _add_edge call: "idle" or "done"
    e_layer,    \* the layer Person._add_edge works on
    e_id,       \* Person._add_edge's id
    e_father,   \* its father
    e_mother,   \* its mother
    e_ret,      \* its return value
    e_err,      \* the exception it raised, "" for none
    spc,        \* the session's last operation, "idle" for none
    family_people,  \* Family.people: per id the Person object registered (0: none)
    made,       \* per id, how many Person objects were built
    first_person,   \* per id, the object the first Family.person(id) returned
    sibs_done,  \* the ids whose registered object has its siblings cached
    s_id,       \* the id the last Family.person call was given
    s_ret,      \* the object it returned
    rpc,        \* the registry's last operation, "idle" for none
    family_relationships,   \* Family.relationships: the set of [a, b, id] held
    memo,       \* the lru_cache of Family.get_parents_id
    r_father,   \* the operation's first person: get_parents_id's father
    r_mother,   \* its second person: get_parents_id's mother
    r_key,      \* get_parents_id's return value
    cpc,        \* cached-property access: "idle" or the property read
    c_self,     \* the Person whose properties the session reads (0: none yet)
    c_loaded,   \* whether Family.add_all has loaded the session
    c_ret,      \* the list the access returned
    c_cache     \* the values cached on c_self, per cached_property

dbvars == <<father, mother, gender, rels, dob, spurious, exclude_spurious,
           father_of, mother_of>>
kvars == <<pc, person_a, person_b, a_ancs, b_ancs, a_done, b_done, result>>
tvars == <<tpc, t_self, t_person, term, short, diff, tgender>>
lvars == <<lpc, l_subject, l_partners, l_siblings, layers, n_anc, lerr>>
evars == <<epc, e_layer, e_id, e_father, e_mother, e_ret, e_err>>
svars == <<spc, family_people, made, first_person, sibs_done, s_id, s_ret>>
rvars == <<rpc, family_relationships, memo, r_father, r_mother, r_key>>
cvars == <<cpc, c_self, c_loaded, c_ret, c_cache>>
vars == <<father, mother, gender, rels, pc, person_a, person_b, a_ancs, b_ancs,
          a_done, b_done, result, tpc, t_self, t_person, term, short, diff,
          tgender, dob, lpc, l_subject, l_partners, l_siblings, layers, n_anc,
          lerr, spurious, exclude_spurious, epc, e_layer, e_id, e_father,
          e_mother, e_ret, e_err, spc, family_people, made, first_person, sibs_done,
          s_id, s_ret, rpc, family_relationships,
          memo, r_father, r_mother, r_key, father_of, mother_of,
          cpc, c_self, c_loaded, c_ret, c_cache>>

\* ------------------------------------------------------------ the database
\* Database.get_person(id) returns the record; it raises SpuriousConnection
\* for a spurious person while the session excludes them.
Found(id) == ~(exclude_spurious /\ spurious[id])

\* Person.father / Person.mother of a person of a session that add_all has
\* loaded: the parent resolved from the record's id, None where the lookup
\* raises SpuriousConnection.  The value is a cached_property of the object.
ResolvedParent(id) == IF id # None /\ Found(id) THEN id ELSE None

\* add_all has registered every person the session does not exclude, and no
\* other person: father and mother of each of them resolve as follows.
ParentsResolved ==
    /\ father_of = [p \in DOMAIN father |-> ResolvedParent(father[p])]
    /\ mother_of = [p \in DOMAIN mother |-> ResolvedParent(mother[p])]

Father(p) == father_of[p]
Mother(p) == mother_of[p]

\* Person.parents: the known parents, father first.
Parents(p) ==
    (IF Father(p) # None THEN <<Father(p)>> ELSE <<>>) \o
    (IF Mother(p) # None THEN <<Mother(p)>> ELSE <<>>)

SeqToSet(s) == {s[i] : i \in 1..Len(s)}

\* Genders of the sample population, by id.
GenderTable == [p \in Persons |->
                  CASE p % 3 = 1 -> "male"
                    [] p % 3 = 2 -> "female"
                    [] OTHER -> "none"]

\* Parent records of well-formed data: a parent has a smaller id than the
\* child (so the graph is acyclic), a father is not female, a mother is not
\* male, and nobody is both parents of one child.
FatherChoices(p) == {None} \cup {q \in 1..(p-1) : GenderTable[q] # "female"}
MotherChoices(p) == {None} \cup {q \in 1..(p-1) : GenderTable[q] # "male"}

ParentChoices(p) ==
    {fm \in FatherChoices(p) \X MotherChoices(p) :
        fm[1] # None => fm[1] # fm[2]}

\* The parent records <<father, mother>> of persons 1..n, one per person.
RECURSIVE AcyclicParents(_)
AcyclicParents(n) ==
    IF n = 0 THEN {<<>>}
    ELSE {Append(g, fm) : g \in AcyclicParents(n - 1), fm \in ParentChoices(n)}

\* --------------------------------------------------------- Family.kinship
\* search_nested: the index (from 0) of the first layer holding the needle,
\* -1 for None.
RECURSIVE SearchFrom(_, _, _)
SearchFrom(needle, haystack, i) ==
    IF i > Len(haystack) THEN -1
    ELSE IF needle \in SeqToSet(haystack[i]) THEN i - 1
    ELSE SearchFrom(needle, haystack, i + 1)

\* Mutant of search_nested: layers counted from 1.
search_nested_from_one(needle, haystack) ==
    LET d == SearchFrom(needle, haystack, 1) IN IF d = -1 THEN -1 ELSE d + 1

search_nested(needle, haystack) == SearchFrom(needle, haystack, 1)

\* all_parents: father then mother of every member of the layer, in order,
\* with repetitions.
RECURSIVE all_parents(_)
all_parents(layer) ==
    IF layer = <<>> THEN <<>>
    ELSE Parents(Head(layer)) \o all_parents(Tail(layer))

\* Mutant of calculate_kinship: the difference taken from the other side.
calculate_kinship_from_b(common_ancestor, a_depth, b_depth) ==
    <<common_ancestor,
      IF a_depth < b_depth THEN a_depth ELSE b_depth,
      b_depth - a_depth>>

calculate_kinship(common_ancestor, a_depth, b_depth) ==
    <<common_ancestor,
      IF a_depth < b_depth THEN a_depth ELSE b_depth,
      a_depth - b_depth>>

\* The first member of `parents` found in some layer of `haystack`, as
\* <<ancestor, depth in haystack>>; <<>> when there is none.
RECURSIVE FirstMatch(_, _)
FirstMatch(parents, haystack) ==
    IF parents = <<>> THEN <<>>
    ELSE LET d == search_nested(Head(parents), haystack)
         IN IF d # -1 THEN <<Head(parents), d>>
            ELSE FirstMatch(Tail(parents), haystack)

\* Mutant of KinshipPass: a side stops expanding as soon as either side has
\* run out of parents.
KinshipPassStopsTogether(s) ==
    LET a_parents == IF s.a_done \/ s.b_done THEN <<>> ELSE all_parents(s.a_ancs[Len(s.a_ancs)])
        b_parents == IF s.a_done \/ s.b_done THEN <<>> ELSE all_parents(s.b_ancs[Len(s.b_ancs)])
        a_ancs1 == IF a_parents # <<>> THEN Append(s.a_ancs, a_parents) ELSE s.a_ancs
        b_ancs1 == IF b_parents # <<>> THEN Append(s.b_ancs, b_parents) ELSE s.b_ancs
        a_done1 == s.a_done \/ a_parents = <<>>
        b_done1 == s.b_done \/ b_parents = <<>>
        a_match == IF a_done1 THEN <<>> ELSE FirstMatch(a_parents, b_ancs1)
        b_match == IF b_done1 THEN <<>> ELSE FirstMatch(b_parents, a_ancs1)
        ret == IF a_match # <<>>
                 THEN calculate_kinship(a_match[1], Len(a_ancs1) - 1, a_match[2])
               ELSE IF b_match # <<>>
                 THEN calculate_kinship(b_match[1], b_match[2], Len(b_ancs1) - 1)
               ELSE <<>>
    IN [a_ancs |-> a_ancs1, b_ancs |-> b_ancs1,
        a_done |-> a_done1, b_done |-> b_done1, ret |-> ret]

\* One pass of the body of `while not (a_done and b_done)` on the loop
\* state s = [a_ancs, b_ancs, a_done, b_done]; `ret` is the value returned
\* from inside the pass (<<>> when the pass returns nothing).
KinshipPass(s) ==
    LET a_parents == IF s.a_done THEN <<>> ELSE all_parents(s.a_ancs[Len(s.a_ancs)])
        b_parents == IF s.b_done THEN <<>> ELSE all_parents(s.b_ancs[Len(s.b_ancs)])
        a_ancs1 == IF a_parents # <<>> THEN Append(s.a_ancs, a_parents) ELSE s.a_ancs
        b_ancs1 == IF b_parents # <<>> THEN Append(s.b_ancs, b_parents) ELSE s.b_ancs
        a_done1 == s.a_done \/ a_parents = <<>>
        b_done1 == s.b_done \/ b_parents = <<>>
        a_match == IF a_done1 THEN <<>> ELSE FirstMatch(a_parents, b_ancs1)
        b_match == IF b_done1 THEN <<>> ELSE FirstMatch(b_parents, a_ancs1)
        ret == IF a_match # <<>>
                 THEN calculate_kinship(a_match[1], Len(a_ancs1) - 1, a_match[2])
               ELSE IF b_match # <<>>
                 THEN calculate_kinship(b_match[1], b_match[2], Len(b_ancs1) - 1)
               ELSE <<>>
    IN [a_ancs |-> a_ancs1, b_ancs |-> b_ancs1,
        a_done |-> a_done1, b_done |-> b_done1, ret |-> ret]

\* The state of the loop at its entry.
KinshipEntry(a, b) ==
    [a_ancs |-> <<<<a>>>>, b_ancs |-> <<<<b>>>>,
     a_done |-> FALSE, b_done |-> FALSE, ret |-> <<>>]

\* The whole loop, run to its return value (None: <<>>).  A side that has
\* reached MaxLayers layers is on a parent cycle; the run is cut off there
\* with the marker <<0, 0, 0>>.
Diverged == <<0, 0, 0>>

RECURSIVE KinshipLoop(_)
KinshipLoop(s) ==
    IF s.a_done /\ s.b_done THEN <<>>
    ELSE IF Len(s.a_ancs) >= MaxLayers \/ Len(s.b_ancs) >= MaxLayers THEN Diverged
    ELSE LET t == KinshipPass(s)
         IN IF t.ret # <<>> THEN t.ret ELSE KinshipLoop(t)

\* Mutant of kinship: no short cut for one and the same person.
kinship_without_identity(a, b) == KinshipLoop(KinshipEntry(a, b))

\* Family.kinship as a function of the two persons.
kinship(a, b) ==
    IF a = b THEN <<a, 0, 0>> ELSE KinshipLoop(KinshipEntry(a, b))

\* ---------------------------------------------------- Person.kinship_term
\* A relationship record is [a, b, type, end_type]: the two partners' ids,
\* "marriage" or "couple", and how it ended ("none" while it lasts).
is_ex(rel) == rel.end_type \in {"divorce", "separation"}
ex_prefix(rel) == IF is_ex(rel) THEN "ex-" ELSE ""

\* Person.relationships: the person's relationships in the order of the
\* table, each as [id, partner, type, end_type] seen from the person;
\* registered tells that the Relationship is the one add_all put into
\* Family.relationships under the key (person, partner).
RECURSIVE RelationshipsFrom(_, _)
RelationshipsFrom(p, i) ==
    IF i > Len(rels) THEN <<>>
    ELSE LET r == rels[i]
             rest == RelationshipsFrom(p, i + 1)
         IN IF r.a = p /\ r.b # p
              THEN <<[id |-> i, partner |-> r.b, type |-> r.type,
                      end_type |-> r.end_type,
                      registered |-> Found(r.a) /\ Found(r.b)]>> \o rest
            ELSE IF r.b = p /\ r.a # p
              THEN <<[id |-> i, partner |-> r.a, type |-> r.type,
                      end_type |-> r.end_type, registered |-> FALSE]>> \o rest
            ELSE rest

\* Database.get_partners: ORDER BY spurious ASC, then the table's order.
relationships(p) ==
    LET OfSound(rel) == ~spurious[rel.partner]
        OfSpurious(rel) == spurious[rel.partner]
    IN IF \A i \in 1..Len(rels) : ~spurious[rels[i].a] /\ ~spurious[rels[i].b]
         THEN RelationshipsFrom(p, 1)
       ELSE SelectSeq(RelationshipsFrom(p, 1), OfSound) \o
            SelectSeq(RelationshipsFrom(p, 1), OfSpurious)

\* The term tables answer "" where the code answers None.
calc_term(sh, df, g) ==
    CASE sh = 0 /\ df = 0 -> "self"
      [] sh = 1 /\ df = 0 /\ g = "male" -> "brother"
      [] sh = 1 /\ df = 0 /\ g = "female" -> "sister"
      [] sh = 1 /\ df = 0 -> "sibling"
      [] sh = 0 /\ df = 1 /\ g = "male" -> "father"
      [] sh = 0 /\ df = 1 /\ g = "female" -> "mother"
      [] sh = 0 /\ df = 1 -> "parent"
      [] sh = 0 /\ df = -1 /\ g = "male" -> "son"
      [] sh = 0 /\ df = -1 /\ g = "female" -> "daughter"
      [] sh = 0 /\ df = -1 -> "child"
      [] sh = 1 /\ df = 1 /\ g = "male" -> "uncle"
      [] sh = 1 /\ df = 1 /\ g = "female" -> "aunt"
      [] sh = 1 /\ df = 1 -> "parent's sibling"
      [] sh = 1 /\ df = -1 /\ g = "male" -> "nephew"
      [] sh = 1 /\ df = -1 /\ g = "female" -> "niece"
      [] sh = 1 /\ df = -1 -> "sibling's child"
      [] sh = 0 /\ df = 2 /\ g = "male" -> "grandfather"
      [] sh = 0 /\ df = 2 /\ g = "female" -> "grandmother"
      [] sh = 0 /\ df = 2 -> "grandparent"
      [] sh = 0 /\ df = -2 /\ g = "male" -> "grandson"
      [] sh = 0 /\ df = -2 /\ g = "female" -> "granddaughter"
      [] sh = 0 /\ df = -2 -> "grandchild"
      [] sh = 1 /\ df = 2 /\ g = "male" -> "great uncle"
      [] sh = 1 /\ df = 2 /\ g = "female" -> "great aunt"
      [] sh = 1 /\ df = 2 -> "grandparent's sibling"
      [] sh = 1 /\ df = -2 /\ g = "male" -> "great nephew"
      [] sh = 1 /\ df = -2 /\ g = "female" -> "great niece"
      [] sh = 1 /\ df = -2 -> "sibling's grandchild"
      [] sh = 2 /\ df = 0 -> "cousin"
      [] OTHER -> ""

calc_spousal_term(sh, df, g) ==
    CASE sh = 0 /\ df = 0 /\ g = "male" -> "husband"
      [] sh = 0 /\ df = 0 /\ g = "female" -> "wife"
      [] sh = 0 /\ df = 0 -> "spouse"
      [] sh = 1 /\ df = 0 /\ g = "male" -> "brother-in-law"
      [] sh = 1 /\ df = 0 /\ g = "female" -> "sister-in-law"
      [] sh = 1 /\ df = 0 -> "sibling-in-law"
      [] sh = 0 /\ df = 1 /\ g = "male" -> "father-in-law"
      [] sh = 0 /\ df = 1 /\ g = "female" -> "mother-in-law"
      [] sh = 0 /\ df = 1 -> "parent-in-law"
      [] sh = 0 /\ df = -1 /\ g = "male" -> "stepson"
      [] sh = 0 /\ df = -1 /\ g = "female" -> "stepdaughter"
      [] sh = 0 /\ df = -1 -> "stepchild"
      [] sh = 1 /\ df = -1 /\ g = "male" -> "nephew by marriage"
      [] sh = 1 /\ df = -1 /\ g = "female" -> "niece by marriage"
      [] sh = 1 /\ df = -1 -> "spouse's sibling's child"
      [] sh = 0 /\ df = 2 /\ g = "male" -> "grandfather-in-law"
      [] sh = 0 /\ df = 2 /\ g = "female" -> "grandmother-in-law"
      [] sh = 0 /\ df = 2 -> "grandparent-in-law"
      [] OTHER -> ""

calc_affine_term(sh, df, g) ==
    CASE sh = 1 /\ df = 0 /\ g = "male" -> "brother-in-law"
      [] sh = 1 /\ df = 0 /\ g = "female" -> "sister-in-law"
      [] sh = 1 /\ df = 0 -> "sibling-in-law"
      [] sh = 0 /\ df = 1 /\ g = "male" -> "stepfather"
      [] sh = 0 /\ df = 1 /\ g = "female" -> "stepmother"
      [] sh = 0 /\ df = 1 -> "step-parent"
      [] sh = 0 /\ df = -1 /\ g = "male" -> "son-in-law"
      [] sh = 0 /\ df = -1 /\ g = "female" -> "daughter-in-law"
      [] sh = 1 /\ df = 1 /\ g = "male" -> "uncle by marriage"
      [] sh = 1 /\ df = 1 /\ g = "female" -> "aunt by marriage"
      [] sh = 1 /\ df = 2 /\ g = "male" -> "great uncle by marriage"
      [] sh = 1 /\ df = 2 /\ g = "female" -> "great aunt by marriage"
      [] OTHER -> ""

Abs(n) == IF n < 0 THEN 0 - n ELSE n

\* inflect: number_to_words(ordinal(n)) and number_to_words(n).
OrdinalWords(n) ==
    CASE n = 0 -> "zeroth" [] n = 1 -> "first" [] n = 2 -> "second"
      [] n = 3 -> "third" [] n = 4 -> "fourth" [] n = 5 -> "fifth"
      [] n = 6 -> "sixth" [] n = 7 -> "seventh" [] n = 8 -> "eighth"
      [] OTHER -> "ninth"
NumberWords(n) ==
    CASE n = 4 -> "four" [] n = 5 -> "five" [] n = 6 -> "six"
      [] n = 7 -> "seven" [] n = 8 -> "eight" [] OTHER -> "nine"

\* config['max_great_levels']
max_great_levels == 3

\* '-'.join(('great',) * levels)
RECURSIVE Greats(_)
Greats(levels) ==
    IF levels <= 0 THEN ""
    ELSE IF levels = 1 THEN "great"
    ELSE "great-" \o Greats(levels - 1)

\* Mutant of calc_extended_term: the cousin's ordinal is the degree itself.
calc_extended_term_degree(sh, df, g) ==
    IF sh \in {0, 1}
      THEN LET levels == Abs(df) - 2
               prefix == IF levels <= max_great_levels
                           THEN Greats(levels) \o " grand"
                           ELSE OrdinalWords(levels) \o "-great grand"
               sign == IF df > 0 THEN 1 ELSE -1
           IN prefix \o calc_term(sh, sign, g)
      ELSE LET cousin == OrdinalWords(sh) \o " cousin"
               removal == CASE Abs(df) = 1 -> "once"
                            [] Abs(df) = 2 -> "twice"
                            [] Abs(df) = 3 -> "thrice"
                            [] OTHER -> NumberWords(Abs(df)) \o " times"
           IN IF df # 0 THEN cousin \o " " \o removal \o " removed" ELSE cousin

calc_extended_term(sh, df, g) ==
    IF sh \in {0, 1}
      THEN LET levels == Abs(df) - 2
               prefix == IF levels <= max_great_levels
                           THEN Greats(levels) \o " grand"
                           ELSE OrdinalWords(levels) \o "-great grand"
               sign == IF df > 0 THEN 1 ELSE -1
           IN prefix \o calc_term(sh, sign, g)
      ELSE LET cousin == OrdinalWords(sh - 1) \o " cousin"
               removal == CASE Abs(df) = 1 -> "once"
                            [] Abs(df) = 2 -> "twice"
                            [] Abs(df) = 3 -> "thrice"
                            [] OTHER -> NumberWords(Abs(df)) \o " times"
           IN IF df # 0 THEN cousin \o " " \o removal \o " removed" ELSE cousin

\* The end of kinship_term: the extended term when the tables have none,
\* then prefix + term + suffix with "self's " and "'s self" taken out.
\* `owner` is the word of the prefix ("husband" of "husband's "), `owned`
\* the word of the suffix ("husband" of "'s husband"); "" for no affix.
FinishTerm(owner, term0, owned, sh, df, g) ==
    LET t == IF term0 = "" THEN calc_extended_term(sh, df, g) ELSE term0
    IN IF owner # "" /\ owned = "" THEN (IF t = "self" THEN owner ELSE owner \o "'s " \o t)
       ELSE IF owner = "" /\ owned # "" THEN (IF t = "self" THEN owned ELSE t \o "'s " \o owned)
       ELSE t

\* The term of a blood kinship: the branch `if kinship:` of kinship_term
\* and what follows it.
BloodTerm(sh, df, g) == FinishTerm("", calc_term(sh, df, g), "", sh, df, g)

\* The word for a partner in a prefix or suffix.
SpouseWord(type, g) ==
    IF type = "marriage"
      THEN CASE g = "male" -> "husband" [] g = "female" -> "wife" [] OTHER -> "spouse"
      ELSE "partner"

\* `for rel in self.relationships`: the first relationship whose partner has
\* a kinship with `person` decides and ends the loop.  The loop's outcome is
\* [kinship, term, owner]; kinship <<>> when no partner is related.
RECURSIVE SelfPartnersLoop(_, _)
SelfPartnersLoop(relseq, person) ==
    IF relseq = <<>> THEN [kinship |-> <<>>, term |-> "", owner |-> ""]
    ELSE LET rel == Head(relseq)
             k == kinship(rel.partner, person)
         IN IF k = <<>> THEN SelfPartnersLoop(Tail(relseq), person)
            ELSE LET spousal == IF rel.type = "marriage"
                                  THEN calc_spousal_term(k[2], k[3], gender[person])
                                  ELSE ""
                 IN IF spousal # ""
                      THEN [kinship |-> k, term |-> ex_prefix(rel) \o spousal, owner |-> ""]
                      ELSE [kinship |-> k,
                            term |-> calc_term(k[2], k[3], gender[person]),
                            owner |-> ex_prefix(rel) \o SpouseWord(rel.type, gender[rel.partner])]

\* `for rel in person.relationships`: every pass assigns `kinship`; a pass
\* that finds a kinship assigns the term, and only the pass that takes the
\* term from calc_term ends the loop.  acc is the loop's variables
\* [kinship, term, owned] before the pass.
RECURSIVE PersonPartnersLoop(_, _, _, _)
PersonPartnersLoop(relseq, self, person, acc) ==
    IF relseq = <<>> THEN acc
    ELSE LET rel == Head(relseq)
             k == kinship(self, rel.partner)
         IN IF k = <<>>
              THEN PersonPartnersLoop(Tail(relseq), self, person,
                                      [acc EXCEPT !.kinship = <<>>])
            ELSE LET affine == IF rel.type = "marriage"
                                 THEN calc_affine_term(k[2], k[3], gender[person])
                                 ELSE ""
                 IN IF affine # ""
                      THEN PersonPartnersLoop(Tail(relseq), self, person,
                               [acc EXCEPT !.kinship = k,
                                           !.term = ex_prefix(rel) \o affine])
                      ELSE [kinship |-> k,
                            term |-> calc_term(k[2], k[3], gender[rel.partner]),
                            owned |-> ex_prefix(rel) \o SpouseWord(rel.type, gender[person])]

kinship_term(self, person) ==
    LET blood == kinship(self, person)
    IN IF blood # <<>>
         THEN BloodTerm(blood[2], blood[3], gender[person])
       ELSE LET own == SelfPartnersLoop(relationships(self), person)
            IN IF own.kinship # <<>>
                 THEN FinishTerm(own.owner, own.term, "",
                                 own.kinship[2], own.kinship[3], gender[person])
               ELSE LET other == PersonPartnersLoop(relationships(person), self, person,
                                     [kinship |-> <<>>, term |-> "", owned |-> ""])
                    IN IF other.kinship = <<>> THEN "no blood relation"
                       ELSE FinishTerm("", other.term, other.owned,
                                       other.kinship[2], other.kinship[3], gender[person])

\* ------------------------------------------------------- Person.get_layers
\* A Person object is written as its id.  Person has no __eq__, so the second
\* object that Person.siblings builds from a record differs from the one the
\* registry held before: it is written as the negated id.
IdOf(o) == Abs(o)
CopyOf(p) == 0 - p

\* A layer: people (a list), groups (parents_id -> list, in insertion order,
\* as [key, members] entries) and edges (id -> (left, right), in insertion
\* order, as [id, left, right] entries).
EmptyLayer == [people |-> <<>>, groups |-> <<>>, edges |-> <<>>]

\* Family.get_relationship on the ids: the id of the relationship registered
\* under the key (a, b), 0 for None.  add_all's dict keeps the last record of
\* a key.
get_relationship(a, b) ==
    LET found == {i \in 1..Len(rels) :
                     /\ rels[i].a = a /\ rels[i].b = b
                     /\ Found(rels[i].a) /\ Found(rels[i].b)}
    IN IF found = {} THEN 0 ELSE CHOOSE i \in found : \A j \in found : j <= i

\* Family.get_parents_id: 'r<id>' is <<"r", id, 0>>, '<f>_<m>' is
\* <<"p", f, m>> with 0 for the 'x' of an unknown parent, None is NoKey.
NoKey == <<"none", 0, 0>>

\* A variant that keys a known father alone.
get_parents_id_of_father(fa, mo) ==
    IF fa # None THEN <<"p", fa, 0>>
    ELSE IF mo # None THEN <<"p", 0, mo>>
    ELSE NoKey

get_parents_id(fa, mo) ==
    IF fa # None /\ mo # None
      THEN IF get_relationship(fa, mo) # 0
             THEN <<"r", get_relationship(fa, mo), 0>>
           ELSE IF get_relationship(mo, fa) # 0
             THEN <<"r", get_relationship(mo, fa), 0>>
           ELSE <<"p", fa, mo>>
    ELSE IF fa # None THEN <<"p", fa, 0>>
    ELSE IF mo # None THEN <<"p", 0, mo>>
    ELSE NoKey

\* Person.__lt__: the date of birth, an unknown one (0) counting as date.max.
DobKey(p) == IF dob[p] = 0 THEN NumPersons + 1 ELSE dob[p]

\* ORDER BY date_of_birth ASC, person_id ASC (NULLs last) over a set of ids.
RECURSIVE SortIds(_)
SortIds(S) ==
    IF S = {} THEN <<>>
    ELSE LET m == CHOOSE x \in S : \A y \in S :
                      \/ DobKey(x) < DobKey(y)
                      \/ DobKey(x) = DobKey(y) /\ x <= y
         IN <<m>> \o SortIds(S \ {m})

\* sorted(): stable, by Person.__lt__ alone.
RECURSIVE SortedFrom(_, _)
SortedFrom(s, k) ==
    IF k > NumPersons + 1 THEN <<>>
    ELSE LET HasKey(o) == DobKey(IdOf(o)) = k
         IN SelectSeq(s, HasKey) \o SortedFrom(s, k + 1)

sorted(s) == SortedFrom(s, 1)

\* The session while get_layers runs: ctx.cached are the objects whose father
\* and mother were resolved before Person.siblings ran, ctx.copied the ids
\* whose registry entry Person.siblings replaced by a new object.
family_person(id, ctx) == IF id \in ctx.copied THEN CopyOf(id) ELSE id

\* Family.person(id) returns: the id is registered, or its record is found.
Resolvable(id, ctx) == id \in ctx.copied \/ Found(id)

\* The session before Person.siblings has run.
WalkCtx == [cached |-> {}, copied |-> {}]

father_in(o, ctx) ==
    IF father[IdOf(o)] = None THEN None
    ELSE IF o \in ctx.cached THEN Father(IdOf(o))
    ELSE IF Resolvable(father[IdOf(o)], ctx) THEN family_person(father[IdOf(o)], ctx)
    ELSE None

mother_in(o, ctx) ==
    IF mother[IdOf(o)] = None THEN None
    ELSE IF o \in ctx.cached THEN Mother(IdOf(o))
    ELSE IF Resolvable(mother[IdOf(o)], ctx) THEN family_person(mother[IdOf(o)], ctx)
    ELSE None

\* Person.parents_id
parents_id(o, ctx) ==
    get_parents_id(IF father_in(o, ctx) = None THEN None ELSE father[IdOf(o)],
                   IF mother_in(o, ctx) = None THEN None ELSE mother[IdOf(o)])

parents_in(o, ctx) ==
    (IF father_in(o, ctx) # None THEN <<father_in(o, ctx)>> ELSE <<>>) \o
    (IF mother_in(o, ctx) # None THEN <<mother_in(o, ctx)>> ELSE <<>>)

\* Person.children: Family.child_ids lists the children recorded with the
\* person as father, then those recorded with the person as mother.
children(o, ctx) ==
    LET ids == SortIds({c \in DOMAIN father : father[c] = IdOf(o)}) \o
               SortIds({c \in DOMAIN mother : mother[c] = IdOf(o)})
    IN sorted([i \in 1..Len(ids) |-> family_person(ids[i], ctx)])

\* Person.children raises SpuriousConnection: Family.person(child_id) does
\* for one of the children, and only KeyError is caught.
children_raise(o, ctx) ==
    \E c \in DOMAIN father :
        /\ father[c] = IdOf(o) \/ mother[c] = IdOf(o)
        /\ ~Resolvable(c, ctx)

\* Person.relationships raises SpuriousConnection: Family.person does for
\* one of the partners.
relationships_raise(o, ctx) ==
    \E i \in 1..Len(relationships(IdOf(o))) :
        ~Resolvable(relationships(IdOf(o))[i].partner, ctx)

\* Database.get_siblings, as ids.
SiblingIds(p) ==
    {s \in DOMAIN father :
        /\ s # p
        /\ \/ father[p] # None /\ father[s] = father[p]
           \/ mother[p] # None /\ mother[s] = mother[p]}

\* Person.siblings: a new object for every record.
siblings(o) ==
    LET ids == SortIds({s \in SiblingIds(IdOf(o)) : ~spurious[s]}) \o
               SortIds({s \in SiblingIds(IdOf(o)) : spurious[s]})
    IN [i \in 1..Len(ids) |-> CopyOf(ids[i])]

\* A variant that leaves the person out.
siblings_alone(o) == sorted(siblings(o))

\* Person.siblings_and_self
siblings_and_self(o) == sorted(Append(siblings(o), o))

\* list.index (first occurrence; 0 where Python raises ValueError),
\* list.insert before the 1-based position i, and the swap of two positions.
IndexOf(s, x) ==
    IF x \in SeqToSet(s)
      THEN CHOOSE i \in 1..Len(s) : s[i] = x /\ \A j \in 1..(i - 1) : s[j] # x
    ELSE 0

InsertAt(s, i, x) == SubSeq(s, 1, i - 1) \o <<x>> \o SubSeq(s, i, Len(s))

SwapAt(s, i, j) == [s EXCEPT ![i] = s[j], ![j] = s[i]]

\* layer['groups'][key], and the append to it.
GroupMembers(layer, key) ==
    LET at == {i \in 1..Len(layer.groups) : layer.groups[i].key = key}
    IN IF at = {} THEN <<>> ELSE layer.groups[CHOOSE i \in at : TRUE].members

GroupAppend(groups, key, o) ==
    LET at == {i \in 1..Len(groups) : groups[i].key = key}
    IN IF at = {} THEN Append(groups, [key |-> key, members |-> <<o>>])
       ELSE [groups EXCEPT ![CHOOSE i \in at : TRUE].members = Append(@, o)]

\* groups is a defaultdict: reading layer['groups'][key] of each key of the
\* list keys creates the missing ones, empty.
RECURSIVE Touch(_, _)
Touch(layer, keys) ==
    IF keys = <<>> THEN layer
    ELSE IF \E i \in 1..Len(layer.groups) : layer.groups[i].key = keys[1]
      THEN Touch(layer, Tail(keys))
    ELSE Touch([layer EXCEPT !.groups =
                  Append(@, [key |-> keys[1], members |-> <<>>])],
               Tail(keys))

\* chain(*layer['groups'].values()), as a set.
GroupedPeople(layer) ==
    UNION {SeqToSet(layer.groups[i].members) : i \in 1..Len(layer.groups)}

\* people.append(o) followed by groups[o.parents_id].append(o).
Place(layer, o, ctx) ==
    [layer EXCEPT !.people = Append(@, o),
                  !.groups = GroupAppend(@, parents_id(o, ctx), o)]

\* What a step on a layer leaves: the layer, Person._add_edge's return value
\* and the exception raised ("" for none).
Ok(layer) == [layer |-> layer, ret |-> TRUE, err |-> ""]

\* Person._add_edge, `if father in lefts:`: the father's earlier edge is
\* turned round and the two change places in people.
SwapPeople(layer, f_index, m_index) ==
    IF f_index = 0 \/ m_index = 0
      THEN [layer |-> layer, ret |-> FALSE, err |-> "ValueError"]
    ELSE Ok([layer EXCEPT !.people = SwapAt(@, f_index, m_index)])

FlipAt(layer, fa, prev_index) ==
    SwapPeople([layer EXCEPT !.edges[prev_index] =
                  [id |-> @.id, left |-> @.right, right |-> fa]],
               IndexOf(layer.people, fa),
               IndexOf(layer.people, layer.edges[prev_index].right))

Flipped(layer, fa) ==
    IF \E i \in 1..Len(layer.edges) : layer.edges[i].left = fa
      THEN FlipAt(layer, fa,
                  IndexOf([i \in 1..Len(layer.edges) |-> layer.edges[i].left], fa))
    ELSE Ok(layer)

\* Person._add_edge, the two inserts into people.
InsertLeft(people, left, right) ==
    IF right \in SeqToSet(people) /\ left \notin SeqToSet(people)
      THEN InsertAt(people, IndexOf(people, right), left)
    ELSE people

InsertRight(people, left, right) ==
    IF left \in SeqToSet(people) /\ right \notin SeqToSet(people)
      THEN InsertAt(people, IndexOf(people, left) + 1, right)
    ELSE people

\* Person._add_edge, edges[id] = (left, right).
SetEdge(edges, edge) ==
    IF \E i \in 1..Len(edges) : edges[i].id = edge.id
      THEN [i \in 1..Len(edges) |-> IF edges[i].id = edge.id THEN edge ELSE edges[i]]
    ELSE Append(edges, edge)

Joined(flipped, id, left, right) ==
    IF flipped.err # "" THEN flipped
    ELSE Ok([flipped.layer EXCEPT
               !.people = InsertRight(InsertLeft(@, left, right), left, right),
               !.edges = SetEdge(@, [id |-> id, left |-> left, right |-> right])])

\* A variant that rejects the pair for the father's edges alone.
add_edge_father_committed(layer, id, fa, mo) ==
    LET lefts == {layer.edges[i].left : i \in 1..Len(layer.edges)}
        rights == {layer.edges[i].right : i \in 1..Len(layer.edges)}
        Has(l, r) == \E i \in 1..Len(layer.edges) :
                        layer.edges[i].left = l /\ layer.edges[i].right = r
    IN IF Has(fa, mo) \/ Has(mo, fa) THEN Ok(layer)
       ELSE IF fa \in lefts /\ fa \in rights
         THEN [layer |-> layer, ret |-> FALSE, err |-> ""]
       ELSE Joined(Flipped(layer, fa), id,
                   IF mo \in rights THEN mo ELSE fa,
                   IF mo \in rights THEN fa ELSE mo)

\* A variant that looks for the pair in the order given alone.
add_edge_same_order(layer, id, fa, mo) ==
    LET lefts == {layer.edges[i].left : i \in 1..Len(layer.edges)}
        rights == {layer.edges[i].right : i \in 1..Len(layer.edges)}
        Has(l, r) == \E i \in 1..Len(layer.edges) :
                        layer.edges[i].left = l /\ layer.edges[i].right = r
    IN IF Has(fa, mo) THEN Ok(layer)
       ELSE IF (fa \in lefts /\ fa \in rights) \/ (mo \in rights /\ mo \in lefts)
         THEN [layer |-> layer, ret |-> FALSE, err |-> ""]
       ELSE Joined(Flipped(layer, fa), id,
                   IF mo \in rights THEN mo ELSE fa,
                   IF mo \in rights THEN fa ELSE mo)

\* Person._add_edge
add_edge(layer, id, fa, mo) ==
    LET lefts == {layer.edges[i].left : i \in 1..Len(layer.edges)}
        rights == {layer.edges[i].right : i \in 1..Len(layer.edges)}
        Has(l, r) == \E i \in 1..Len(layer.edges) :
                        layer.edges[i].left = l /\ layer.edges[i].right = r
    IN IF Has(fa, mo) \/ Has(mo, fa) THEN Ok(layer)
       ELSE IF (fa \in lefts /\ fa \in rights) \/ (mo \in rights /\ mo \in lefts)
         THEN [layer |-> layer, ret |-> FALSE, err |-> ""]
       ELSE Joined(Flipped(layer, fa), id,
                   IF mo \in rights THEN mo ELSE fa,
                   IF mo \in rights THEN fa ELSE mo)

\* A new layer is appended where the list has none at the level.
Opened(w, level) ==
    IF level >= Len(w.layers) THEN [w EXCEPT !.layers = Append(@, EmptyLayer)]
    ELSE w

\* layers[level] is replaced by what a step left of it.
SetLayer(w, level, added) ==
    [layers |-> [w.layers EXCEPT ![level + 1] = added.layer], err |-> added.err]

\* get_ancestor_layers, after the recursion: the parents not yet in their
\* group are placed, and father and mother are joined by an edge.
PlaceAll(layer, new) ==
    IF Len(new) = 0 THEN layer
    ELSE IF Len(new) = 1 THEN Place(layer, new[1], WalkCtx)
    ELSE Place(Place(layer, new[1], WalkCtx), new[2], WalkCtx)

ParentsPlaced(layer, fa, mo) ==
    LET Absent(p) ==
            /\ p # None
            /\ p \notin SeqToSet(GroupMembers(layer, parents_id(p, WalkCtx)))
        Known(p) == p # None
        known == SelectSeq(<<fa, mo>>, Known)
    IN PlaceAll(Touch(layer, [i \in 1..Len(known) |-> parents_id(known[i], WalkCtx)]),
                SelectSeq(<<fa, mo>>, Absent))

ParentsJoined(o, layer) ==
    IF Father(o) # None /\ Mother(o) # None
      THEN add_edge(layer, parents_id(o, WalkCtx), Father(o), Mother(o))
    ELSE Ok(layer)

AncestorsPlaced(o, level, w) ==
    IF w.err # "" THEN w
    ELSE SetLayer(w, level,
                  ParentsJoined(o, ParentsPlaced(w.layers[level + 1],
                                                 Father(o), Mother(o))))

\* Person.get_ancestor_layers, the recursion: w is [layers, err], the shared
\* list of layers and the exception raised so far.
RECURSIVE AncestorWalk(_, _, _)
RECURSIVE AncestorsOf(_, _, _)
AncestorsOf(p, level, w) ==
    IF p # None THEN AncestorWalk(p, level + 1, w) ELSE w

AncestorWalk(o, level, w) ==
    IF w.err # "" THEN w
    ELSE IF level > MaxWalkDepth THEN [w EXCEPT !.err = "RecursionError"]
    ELSE AncestorsPlaced(o, level,
            AncestorsOf(Mother(o), level,
                AncestorsOf(Father(o), level, Opened(w, level))))

\* layers[-2::-1]
Reversed(s) == [i \in 1..Len(s) |-> s[Len(s) + 1 - i]]

\* Mutant of AncestorLayers: the last layer is kept.
AncestorLayersWhole(w) == [layers |-> Reversed(w.layers), err |-> w.err]

AncestorLayers(w) ==
    [layers |-> Reversed(SubSeq(w.layers, 1, Len(w.layers) - 1)), err |-> w.err]

get_ancestor_layers(o) ==
    AncestorLayers(AncestorWalk(o, 0, [layers |-> <<>>, err |-> ""]))

\* get_descendant_layers, outer call: the partner edges of one person of
\* generation 0, from relseq[i] on.  A registered Relationship holds the
\* partner that add_all gave it; any other is looked up in the registry.
PartnerOf(rel, ctx) ==
    IF rel.registered THEN rel.partner ELSE family_person(rel.partner, ctx)

PartnerEdge(layer, id, o, partner) ==
    IF gender[IdOf(o)] = "female" /\ gender[IdOf(partner)] = "male"
      THEN add_edge(layer, <<"r", id, 0>>, partner, o)
    ELSE add_edge(layer, <<"r", id, 0>>, o, partner)

RECURSIVE PartnerEdges(_, _, _, _, _)
PartnerEdges(relseq, i, o, added, ctx) ==
    IF i > Len(relseq) \/ added.err # "" THEN added
    ELSE PartnerEdges(relseq, i + 1, o,
                      PartnerEdge(added.layer, relseq[i].id, o,
                                  PartnerOf(relseq[i], ctx)),
                      ctx)

\* A parent of a person of generation 0 is put into the last ancestor layer:
\* appended where absent, and then grouped by its own parents_id, which
\* raises AttributeError when the parent is None.
PlaceParent(added, parent, ctx) ==
    IF added.err # "" \/ parent \in SeqToSet(added.layer.people) THEN added
    ELSE IF parent = None
      THEN [layer |-> [added.layer EXCEPT !.people = Append(@, None)],
            ret |-> FALSE, err |-> "AttributeError"]
    ELSE Ok(Place(added.layer, parent, ctx))

SubjectParentsJoined(o, added, fa, mo, ctx) ==
    IF added.err = "" /\ fa # None /\ mo # None
      THEN add_edge(added.layer, parents_id(o, ctx), fa, mo)
    ELSE added

\* get_descendant_layers, outer call, `if len(ancestor_layers):` for one
\* person: what it leaves of ancestor_layers[-1].
LastLayer(o, last, ctx) ==
    SubjectParentsJoined(o,
        PlaceParent(PlaceParent(Ok(last), father_in(o, ctx), ctx),
                    mother_in(o, ctx), ctx),
        father_in(o, ctx), mother_in(o, ctx), ctx)

\* x is [al, l0, err]: the ancestor layers, layers[0] and the exception.
WithLast(x, last) ==
    [al |-> [x.al EXCEPT ![Len(x.al)] = last.layer], l0 |-> x.l0, err |-> last.err]

WithFirst(x, first) == [al |-> x.al, l0 |-> first.layer, err |-> first.err]

SubjectPartners(o, x, include_partners, ctx) ==
    IF x.err # "" \/ ~include_partners THEN x
    ELSE IF relationships_raise(o, ctx) THEN [x EXCEPT !.err = "SpuriousConnection"]
    ELSE WithFirst(x, PartnerEdges(relationships(IdOf(o)), 1, o, Ok(x.l0), ctx))

SubjectParents(o, x, ctx) ==
    IF Len(x.al) = 0 THEN x
    ELSE WithLast(x, LastLayer(o, x.al[Len(x.al)], ctx))

\* get_descendant_layers, outer call: the first loop's body for one person.
PlaceSubject(o, x, include_partners, ctx) ==
    IF x.err # "" THEN x
    ELSE SubjectPartners(o,
            SubjectParents(o, [x EXCEPT !.l0 = Place(@, o, ctx)], ctx),
            include_partners, ctx)

RECURSIVE PlaceSubjects(_, _, _, _, _)
PlaceSubjects(people, i, x, include_partners, ctx) ==
    IF i > Len(people) THEN x
    ELSE PlaceSubjects(people, i + 1,
                       PlaceSubject(people[i], x, include_partners, ctx),
                       include_partners, ctx)

\* get_descendant_layers, the loop over child.parents: prev is
\* [layer, ret, err] for prev_layer.
ParentSeen(layer, parent) ==
    IF parent \notin SeqToSet(layer.people)
      THEN [layer EXCEPT !.people = Append(@, parent)]
    ELSE layer

ParentJoined(layer, parent, child, ctx) ==
    IF parent \notin GroupedPeople(layer)
      THEN add_edge([layer EXCEPT !.groups =
                       GroupAppend(@, parents_id(parent, ctx), parent)],
                    parents_id(child, ctx),
                    father_in(child, ctx), mother_in(child, ctx))
    ELSE Ok(layer)

RECURSIVE ChildParents(_, _, _, _, _)
ChildParents(parents, i, child, prev, ctx) ==
    IF i > Len(parents) \/ prev.err # "" THEN prev
    ELSE ChildParents(parents, i + 1, child,
                      ParentJoined(ParentSeen(prev.layer, parents[i]),
                                   parents[i], child, ctx),
                      ctx)

\* layers[level - 1], prev_layer, is replaced by what the loop left of it.
SetPrev(placed, level, prev) ==
    [layers |-> [placed EXCEPT ![level] = prev.layer], err |-> prev.err]

ChildJoined(child, level, placed, ctx) ==
    SetPrev(placed, level,
            ChildParents(parents_in(child, ctx), 1, child, Ok(placed[level]), ctx))

\* The child is placed in layers[level] and its parents in prev_layer.
ChildPlaced(child, level, w, ctx) ==
    ChildJoined(child, level,
                [w.layers EXCEPT ![level + 1] = Place(@, child, ctx)], ctx)

\* get_descendant_layers from `for person in people:` on, for one person:
\* Descend is the body for the person, DescendChildren its loop over the
\* children chosen before the loop starts.  level is Python's level.
RECURSIVE Descend(_, _, _, _)
RECURSIVE DescendChildren(_, _, _, _, _)
DescendKids(kids, level, w, ctx) ==
    LET Absent(c) ==
            c \notin SeqToSet(GroupMembers(w.layers[level + 1], parents_id(c, ctx)))
    IN DescendChildren(SelectSeq(kids, Absent), 1, level,
                       [w EXCEPT !.layers[level + 1] =
                          Touch(@, [i \in 1..Len(kids) |-> parents_id(kids[i], ctx)])],
                       ctx)

Descend(o, level, w, ctx) ==
    IF w.err # "" THEN w
    ELSE IF level > MaxWalkDepth THEN [w EXCEPT !.err = "RecursionError"]
    ELSE IF children_raise(o, ctx) THEN [w EXCEPT !.err = "SpuriousConnection"]
    ELSE IF Len(children(o, ctx)) = 0 THEN w
    ELSE DescendKids(children(o, ctx), level, Opened(w, level), ctx)

DescendChildren(todo, i, level, w, ctx) ==
    IF i > Len(todo) \/ w.err # "" THEN w
    ELSE DescendChildren(todo, i + 1, level,
                         Descend(todo[i], level + 1,
                                 ChildPlaced(todo[i], level, w, ctx), ctx),
                         ctx)

\* get_descendant_layers, outer call: the second loop.
RECURSIVE DescendAll(_, _, _, _)
DescendAll(people, i, w, ctx) ==
    IF i > Len(people) THEN w
    ELSE DescendAll(people, i + 1, Descend(people[i], 1, w, ctx), ctx)

\* [al, layers, err]: ancestor_layers as the call leaves it, the layers it
\* returns and the exception it raised.
Descended(al, w) == [al |-> al, layers |-> w.layers, err |-> w.err]

DescendFrom(people, x, ctx) ==
    Descended(x.al, DescendAll(people, 1, [layers |-> <<x.l0>>, err |-> x.err], ctx))

GenerationZero(people, include_partners, al, ctx) ==
    DescendFrom(people,
                PlaceSubjects(people, 1, [al |-> al, l0 |-> EmptyLayer, err |-> ""],
                              include_partners, ctx),
                ctx)

\* Person.get_descendant_layers(include_partners, include_siblings,
\* ancestor_layers)
get_descendant_layers(o, include_partners, include_siblings, al, ctx) ==
    GenerationZero(IF include_siblings THEN siblings_and_self(o) ELSE <<o>>,
                   include_partners, al, ctx)

\* The persons that get_ancestor_layers(o) visits: o and its ancestors.
RECURSIVE Visited(_, _)
Visited(S, n) ==
    IF n = 0 THEN S
    ELSE Visited(S \cup (({Father(p) : p \in S} \cup {Mother(p) : p \in S}) \ {None}),
                 n - 1)

\* What get_layers returns: the layers, the number of them that are ancestor
\* layers, and the exception raised ("" for none).
Raised(err) == [layers |-> <<>>, n_anc |-> 0, err |-> err]

AllLayers(desc) ==
    IF desc.err # "" THEN Raised(desc.err)
    ELSE [layers |-> desc.al \o desc.layers, n_anc |-> Len(desc.al), err |-> ""]

LayersBelow(o, include_partners, include_siblings, anc) ==
    IF anc.err # "" THEN Raised(anc.err)
    ELSE AllLayers(get_descendant_layers(o, include_partners, include_siblings,
                       anc.layers,
                       [cached |-> Visited({o}, NumPersons),
                        copied |-> IF include_siblings THEN SiblingIds(o) ELSE {}]))

\* Person.get_layers
get_layers(o, include_partners, include_siblings) ==
    LayersBelow(o, include_partners, include_siblings, get_ancestor_layers(o))

\* ------------------------------------------------------------- operations
KinshipIdle ==
    /\ pc = "idle" /\ person_a = None /\ person_b = None
    /\ a_ancs = <<>> /\ b_ancs = <<>>
    /\ a_done = FALSE /\ b_done = FALSE /\ result = <<>>

TermIdle ==
    /\ tpc = "idle" /\ t_self = None /\ t_person = None /\ term = ""
    /\ short = 0 /\ diff = 0 /\ tgender = "none"

LayersIdle ==
    /\ lpc = "idle" /\ l_subject = None
    /\ l_partners = FALSE /\ l_siblings = FALSE
    /\ layers = <<>> /\ n_anc = 0 /\ lerr = ""

EdgeIdle ==
    /\ epc = "idle" /\ e_layer = EmptyLayer /\ e_id = NoKey
    /\ e_father = None /\ e_mother = None /\ e_ret = FALSE /\ e_err = ""

\* A Family just constructed: nobody registered, no object built.
SessionIdle ==
    /\ spc = "idle"
    /\ family_people = [p \in Persons |-> 0]
    /\ made = [p \in Persons |-> 0]
    /\ first_person = [p \in Persons |-> 0]
    /\ sibs_done = {}
    /\ s_id = None /\ s_ret = 0

RegistryIdle ==
    /\ rpc = "idle" /\ family_relationships = {} /\ memo = {}
    /\ r_father = None /\ r_mother = None /\ r_key = NoKey

\* No property of any Person has been read: nothing is cached.
Unset == <<None>>
NothingCached == [children |-> Unset, siblings |-> Unset, siblings_and_self |-> Unset]

CachedIdle ==
    /\ cpc = "idle" /\ c_self = None /\ c_loaded = FALSE
    /\ c_ret = <<>> /\ c_cache = NothingCached

\* No date of birth is recorded.
NoDob == [p \in Persons |-> 0]

\* Nobody is flagged spurious.
NoSpurious == [p \in Persons |-> FALSE]

Init ==
    /\ \E fm \in AcyclicParents(NumPersons) :
          /\ father = [p \in Persons |-> fm[p][1]]
          /\ mother = [p \in Persons |-> fm[p][2]]
    /\ gender = GenderTable
    /\ spurious = NoSpurious
    /\ exclude_spurious = FALSE
    /\ ParentsResolved
    /\ rels = <<>>
    /\ dob = NoDob
    /\ KinshipIdle
    /\ TermIdle
    /\ LayersIdle
    /\ EdgeIdle
    /\ SessionIdle
    /\ RegistryIdle
    /\ CachedIdle

\* The relationship records of the sample: a pair of persons, married, divorced
\* or living as a couple.
RelChoices ==
    {[a |-> x, b |-> y, type |-> v[1], end_type |-> v[2]] :
        x \in TermPersons, y \in TermPersons,
        v \in {<<"marriage", "none">>, <<"marriage", "divorce">>, <<"couple", "none">>}}

\* Relationship tables of at most n records, no pair of persons twice.
RECURSIVE RelTables(_)
RelTables(n) ==
    IF n = 0 THEN {<<>>}
    ELSE LET shorter == RelTables(n - 1)
         IN shorter \cup
            {Append(t, r) : t \in {u \in shorter : Len(u) = n - 1},
                            r \in {c \in RelChoices : c.a < c.b}} 

NoPairTwice(t) ==
    \A i \in 1..Len(t), j \in 1..Len(t) :
        i # j => <<t[i].a, t[i].b>> # <<t[j].a, t[j].b>>

\* kinship_term on well-formed data of NumTermPersons persons with
\* relationships.
InitTerm ==
    /\ \E fm \in AcyclicParents(NumTermPersons) :
          /\ father = [p \in Persons |-> IF p \in TermPersons THEN fm[p][1] ELSE None]
          /\ mother = [p \in Persons |-> IF p \in TermPersons THEN fm[p][2] ELSE None]
    /\ gender = GenderTable
    /\ spurious = NoSpurious
    /\ exclude_spurious = FALSE
    /\ ParentsResolved
    /\ rels \in {t \in RelTables(MaxRels) : NoPairTwice(t)}
    /\ dob = NoDob
    /\ KinshipIdle
    /\ TermIdle
    /\ LayersIdle
    /\ EdgeIdle
    /\ SessionIdle
    /\ RegistryIdle
    /\ CachedIdle

\* Malformed data: among the persons 1..NumCyclic any person, oneself
\* included, may be recorded as a parent; the others have no parents.
CyclicFatherChoices == {None} \cup {q \in CyclicPersons : GenderTable[q] # "female"}
CyclicMotherChoices == {None} \cup {q \in CyclicPersons : GenderTable[q] # "male"}

InitCyclic ==
    /\ father \in [Persons -> CyclicFatherChoices]
    /\ mother \in [Persons -> CyclicMotherChoices]
    /\ \A p \in Persons \ CyclicPersons : father[p] = None /\ mother[p] = None
    /\ \A p \in Persons : father[p] # None => father[p] # mother[p]
    /\ gender = GenderTable
    /\ spurious = NoSpurious
    /\ exclude_spurious = FALSE
    /\ ParentsResolved
    /\ rels = <<>>
    /\ dob = NoDob
    /\ KinshipIdle
    /\ TermIdle
    /\ LayersIdle
    /\ EdgeIdle
    /\ SessionIdle
    /\ RegistryIdle
    /\ CachedIdle

\* Family.kinship(a, b) up to the first test of the while condition.
KinshipCall(a, b) ==
    /\ pc = "idle"
    /\ person_a' = a
    /\ person_b' = b
    /\ IF a = b
         THEN /\ pc' = "done"
              /\ result' = <<a, 0, 0>>
              /\ a_ancs' = <<>> /\ b_ancs' = <<>>
         ELSE /\ pc' = "loop"
              /\ result' = <<>>
              /\ a_ancs' = <<<<a>>>> /\ b_ancs' = <<<<b>>>>
    /\ a_done' = FALSE
    /\ b_done' = FALSE
    /\ UNCHANGED <<dbvars, cvars, evars, svars, rvars, lvars, tvars>>

\* One pass of the while loop, and the test of its condition that follows.
KinshipIterate ==
    /\ pc = "loop"
    /\ Len(a_ancs) < MaxLayers
    /\ Len(b_ancs) < MaxLayers
    /\ LET t == KinshipPass([a_ancs |-> a_ancs, b_ancs |-> b_ancs,
                             a_done |-> a_done, b_done |-> b_done])
       IN /\ a_ancs' = t.a_ancs
          /\ b_ancs' = t.b_ancs
          /\ a_done' = t.a_done
          /\ b_done' = t.b_done
          /\ result' = t.ret
          /\ pc' = IF t.ret # <<>> \/ (t.a_done /\ t.b_done) THEN "done" ELSE "loop"
    /\ UNCHANGED <<dbvars, cvars, evars, svars, rvars, lvars, tvars, person_a, person_b>>

\* The caller takes the value; the locals of the call are gone.
KinshipReturn ==
    /\ pc = "done"
    /\ pc' = "idle"
    /\ person_a' = None /\ person_b' = None
    /\ a_ancs' = <<>> /\ b_ancs' = <<>>
    /\ a_done' = FALSE /\ b_done' = FALSE /\ result' = <<>>
    /\ UNCHANGED <<dbvars, cvars, evars, svars, rvars, lvars, tvars>>

Next ==
    \/ \E a \in Persons, b \in Persons : KinshipCall(a, b)
    \/ KinshipIterate
    \/ KinshipReturn

\* self.kinship_term(person), the whole call.
KinshipTermCall(self, person) ==
    /\ tpc = "idle"
    /\ tpc' = "done"
    /\ t_self' = self
    /\ t_person' = person
    /\ term' = kinship_term(self, person)
    /\ UNCHANGED <<dbvars, cvars, evars, svars, rvars, lvars, kvars, short, diff, tgender>>

KinshipTermReturn ==
    /\ tpc = "done"
    /\ tpc' = "idle"
    /\ t_self' = None /\ t_person' = None /\ term' = ""
    /\ UNCHANGED <<dbvars, cvars, evars, svars, rvars, lvars, kvars, short, diff, tgender>>

NextTerm ==
    \/ \E self \in TermPersons, person \in TermPersons : KinshipTermCall(self, person)
    \/ KinshipTermReturn

\* The database of one lone person: every kinship is then handed to the
\* term tables directly.
InitTable ==
    /\ father = [p \in Persons |-> None]
    /\ mother = [p \in Persons |-> None]
    /\ gender = GenderTable
    /\ spurious = NoSpurious
    /\ exclude_spurious = FALSE
    /\ ParentsResolved
    /\ rels = <<>>
    /\ dob = NoDob
    /\ KinshipIdle
    /\ TermIdle
    /\ LayersIdle
    /\ EdgeIdle
    /\ SessionIdle
    /\ RegistryIdle
    /\ CachedIdle

\* kinship_term from `if kinship:` on, for a blood kinship of degree sh and
\* generation difference df to a person of gender g.
TermOfKinship(sh, df, g) ==
    /\ tpc = "idle"
    /\ tpc' = "done"
    /\ short' = sh
    /\ diff' = df
    /\ tgender' = g
    /\ term' = BloodTerm(sh, df, g)
    /\ UNCHANGED <<dbvars, cvars, evars, svars, rvars, lvars, kvars, t_self, t_person>>

NextTable ==
    \E sh \in 0..MaxShort, df \in (0 - MaxDiff)..MaxDiff,
       g \in {"male", "female", "none"} : TermOfKinship(sh, df, g)

\* The relationship tables of the layer sample: at most MaxLayerRels
\* marriages among its persons, no pair twice.
RECURSIVE LayerRelTables(_)
LayerRelTables(n) ==
    IF n = 0 THEN {<<>>}
    ELSE LET shorter == LayerRelTables(n - 1)
         IN shorter \cup
            {Append(t, [a |-> x, b |-> y, type |-> "marriage", end_type |-> "none"]) :
                t \in {u \in shorter : Len(u) = n - 1},
                x \in LayerPersons, y \in LayerPersons}

\* The dates of birth of the layer sample: none recorded, rising with the
\* id, or falling with it.
DobTables ==
    {NoDob,
     [p \in Persons |-> p],
     [p \in Persons |-> NumPersons + 1 - p]}

\* get_layers on a freshly loaded Family of NumLayerPersons persons.
InitLayers ==
    /\ \E fm \in AcyclicParents(NumLayerPersons) :
          /\ father = [p \in Persons |-> IF p \in LayerPersons THEN fm[p][1] ELSE None]
          /\ mother = [p \in Persons |-> IF p \in LayerPersons THEN fm[p][2] ELSE None]
    /\ gender = GenderTable
    /\ spurious = NoSpurious
    /\ exclude_spurious = FALSE
    /\ ParentsResolved
    /\ rels \in {t \in LayerRelTables(MaxLayerRels) :
                    NoPairTwice(t) /\ \A i \in 1..Len(t) : t[i].a < t[i].b}
    /\ dob \in DobTables
    /\ KinshipIdle
    /\ TermIdle
    /\ LayersIdle
    /\ EdgeIdle
    /\ SessionIdle
    /\ RegistryIdle
    /\ CachedIdle

\* subject.get_layers(include_partners, include_siblings), the whole call on
\* the freshly loaded Family.
GetLayersCall(subject, include_partners, include_siblings) ==
    /\ lpc = "idle"
    /\ lpc' = "done"
    /\ l_subject' = subject
    /\ l_partners' = include_partners
    /\ l_siblings' = include_siblings
    /\ LET got == get_layers(subject, include_partners, include_siblings)
       IN /\ layers' = got.layers
          /\ n_anc' = got.n_anc
          /\ lerr' = got.err
    /\ UNCHANGED <<dbvars, cvars, evars, svars, rvars, kvars, tvars>>

\* The caller drops the layers; the next call is made on a Family loaded
\* anew.
GetLayersReturn ==
    /\ lpc = "done"
    /\ lpc' = "idle"
    /\ l_subject' = None
    /\ l_partners' = FALSE /\ l_siblings' = FALSE
    /\ layers' = <<>> /\ n_anc' = 0 /\ lerr' = ""
    /\ UNCHANGED <<dbvars, cvars, evars, svars, rvars, kvars, tvars>>

NextLayers ==
    \/ \E subject \in LayerPersons, include_partners \in BOOLEAN,
          include_siblings \in BOOLEAN :
            GetLayersCall(subject, include_partners, include_siblings)
    \/ GetLayersReturn

\* The _add_edge sample: a layer, empty at first, that persons are appended to
\* and edges are added to.  The data behind the persons plays no part.
InitEdge ==
    /\ father = [p \in Persons |-> None]
    /\ mother = [p \in Persons |-> None]
    /\ gender = GenderTable
    /\ spurious = NoSpurious
    /\ exclude_spurious = FALSE
    /\ ParentsResolved
    /\ rels = <<>>
    /\ dob = NoDob
    /\ KinshipIdle
    /\ TermIdle
    /\ LayersIdle
    /\ EdgeIdle
    /\ SessionIdle
    /\ RegistryIdle
    /\ CachedIdle

\* layer['people'].append(p), for a person the layer does not hold yet.
EdgeAppend(p) ==
    /\ p \notin SeqToSet(e_layer.people)
    /\ e_layer' = [e_layer EXCEPT !.people = Append(@, p)]
    /\ epc' = "idle"
    /\ e_id' = NoKey /\ e_father' = None /\ e_mother' = None
    /\ e_ret' = FALSE /\ e_err' = ""
    /\ UNCHANGED <<dbvars, cvars, kvars, tvars, lvars, svars, rvars>>

\* The id an edge of two persons is added under: the callers pass the
\* parents_id of a child of the two or the id of their relationship, the one
\* and the other a key of the pair whatever its order.
EdgeId(fa, mo) ==
    IF fa = None \/ (mo # None /\ mo < fa) THEN <<"p", mo, fa>> ELSE <<"p", fa, mo>>

\* Person._add_edge(layer, id, father, mother), the whole call: the layer is
\* left as the call, or the exception it raised, left it.  The sample's
\* layers hold at most MaxEdges edges: a call that adds none is made on a
\* full layer too.
AddEdgeCall(fa, mo) ==
    /\ fa # mo
    /\ Len(add_edge(e_layer, EdgeId(fa, mo), fa, mo).layer.edges) <= MaxEdges
    /\ epc' = "done"
    /\ e_id' = EdgeId(fa, mo) /\ e_father' = fa /\ e_mother' = mo
    /\ LET got == add_edge(e_layer, EdgeId(fa, mo), fa, mo)
       IN /\ e_layer' = got.layer
          /\ e_ret' = got.ret
          /\ e_err' = got.err
    /\ UNCHANGED <<dbvars, cvars, kvars, tvars, lvars, svars, rvars>>

NextEdge ==
    \/ \E p \in EdgePersons : EdgeAppend(p)
    \/ \E fa \in EdgePersons \cup {None}, mo \in EdgePersons \cup {None} :
          AddEdgeCall(fa, mo)

\* A session: a Family constructed without add_all over well-formed data of
\* NumSessionPersons persons without relationships.
InitSession ==
    /\ \E fm \in AcyclicParents(NumSessionPersons) :
          /\ father = [p \in Persons |-> IF p \in SessionPersons THEN fm[p][1] ELSE None]
          /\ mother = [p \in Persons |-> IF p \in SessionPersons THEN fm[p][2] ELSE None]
    /\ gender = GenderTable
    /\ spurious = NoSpurious
    /\ exclude_spurious = FALSE
    /\ ParentsResolved
    /\ rels = <<>>
    /\ dob = NoDob
    /\ KinshipIdle
    /\ TermIdle
    /\ LayersIdle
    /\ EdgeIdle
    /\ SessionIdle
    /\ RegistryIdle
    /\ CachedIdle

\* Person.__init__ with a family, for every id of S: a new object is built
\* and takes the id's place in Family.people.
Built(S) == [p \in Persons |-> IF p \in S THEN made[p] + 1 ELSE made[p]]

Registered(S) ==
    [p \in Persons |-> IF p \in S THEN made[p] + 1 ELSE family_people[p]]

\* The session builds at most MaxObjects objects per id.
CanBuild(S) == \A p \in S : made[p] < MaxObjects

\* Family.person(id), the whole call.
FamilyPerson(id) ==
    /\ LET absent == IF family_people[id] = 0 THEN {id} ELSE {}
       IN /\ CanBuild(absent)
          /\ made' = Built(absent)
          /\ family_people' = Registered(absent)
    /\ spc' = "person"
    /\ s_id' = id
    /\ s_ret' = family_people'[id]
    /\ first_person' = IF first_person[id] = 0
                         THEN [first_person EXCEPT ![id] = family_people'[id]]
                       ELSE first_person
    /\ UNCHANGED <<dbvars, cvars, kvars, tvars, lvars, evars, rvars, sibs_done>>

\* What Family.add_all leaves of the session: a new object for every record
\* of the people table.
AddedAll ==
    /\ CanBuild(SessionPersons)
    /\ made' = Built(SessionPersons)
    /\ family_people' = Registered(SessionPersons)
    /\ sibs_done' = {}
    /\ s_id' = None /\ s_ret' = 0
    /\ UNCHANGED <<dbvars, cvars, kvars, tvars, lvars, evars, rvars, first_person>>

\* Family.add_all()
FamilyAddAll ==
    /\ spc' = "add_all"
    /\ AddedAll

\* Family.kinship(a, b), the whole call: it starts with self.add_all(); its
\* value goes to the caller.
FamilyKinship(a, b) ==
    /\ spc' = "kinship"
    /\ AddedAll

\* self.kinship_term(person), the whole call, self and person being the
\* objects registered: without relationships it calls Family.kinship once.
PersonKinshipTerm(self, person) ==
    /\ family_people[self] # 0
    /\ family_people[person] # 0
    /\ spc' = "kinship_term"
    /\ AddedAll

\* What the first evaluation of the siblings of the object registered for id
\* leaves of the session: a new object for every record of
\* Database.get_siblings.  A later evaluation finds the list cached.
SiblingsBuilt(id, op) ==
    /\ LET new == IF id \in sibs_done THEN {} ELSE SiblingIds(id)
       IN /\ CanBuild(new)
          /\ made' = Built(new)
          /\ family_people' = Registered(new)
          /\ sibs_done' = (sibs_done \ new) \cup {id}
    /\ spc' = op
    /\ s_id' = None /\ s_ret' = 0
    /\ UNCHANGED <<dbvars, cvars, kvars, tvars, lvars, evars, rvars, first_person>>

\* Person.siblings of the object registered for id.
PersonSiblings(id) ==
    /\ family_people[id] # 0
    /\ SiblingsBuilt(id, "siblings")

\* get_layers of the object registered for id, in a session that has every
\* person registered: the walks then find every person they look up, and
\* siblings_and_self alone builds objects.
PersonGetLayers(id, include_siblings) ==
    /\ \A p \in SessionPersons : family_people[p] # 0
    /\ IF include_siblings THEN SiblingsBuilt(id, "get_layers")
       ELSE /\ spc' = "get_layers"
            /\ s_id' = None /\ s_ret' = 0
            /\ UNCHANGED <<dbvars, cvars, kvars, tvars, lvars, evars, rvars, made,
                           family_people, first_person, sibs_done>>

NextSession ==
    \/ \E id \in SessionPersons : FamilyPerson(id)
    \/ FamilyAddAll
    \/ \E a \in SessionPersons, b \in SessionPersons : FamilyKinship(a, b)
    \/ \E self \in SessionPersons, person \in SessionPersons :
          PersonKinshipTerm(self, person)
    \/ \E id \in SessionPersons : PersonSiblings(id)
    \/ \E id \in SessionPersons, include_siblings \in BOOLEAN :
          PersonGetLayers(id, include_siblings)


\* Family.kinship on well-formed (acyclic) data.
Spec == Init /\ [][Next]_vars

\* Family.kinship on data that may hold parent cycles.
SpecCyclic == InitCyclic /\ [][Next]_vars

\* Person.kinship_term on well-formed data with relationships.
SpecTerm == InitTerm /\ [][NextTerm]_vars

\* The term tables of Person.kinship_term on every blood kinship.
SpecTable == InitTable /\ [][NextTable]_vars

\* Person.get_layers on well-formed data with relationships and birth dates.
SpecLayers == InitLayers /\ [][NextLayers]_vars

\* get_layers on a family of NumDescentPersons persons in generations: person
\* 1, then two persons to a generation, a man (even id) and a woman (odd
\* id); a parent is of the generation before the child's.  No relationship
\* is recorded and no date of birth is known.
DescentPersons == 1..NumDescentPersons

Generation(p) == p \div 2

DescentGender == [p \in DescentPersons |->
                    IF p % 2 = 0 THEN "male" ELSE "female"]

DescentChoices(p) ==
    ({None} \cup {q \in DescentPersons :
                    Generation(q) + 1 = Generation(p) /\ q % 2 = 0})
    \X
    ({None} \cup {q \in DescentPersons :
                    Generation(q) + 1 = Generation(p) /\ q % 2 = 1})

RECURSIVE DescentParents(_)
DescentParents(n) ==
    IF n = 0 THEN {<<>>}
    ELSE {Append(g, fm) : g \in DescentParents(n - 1), fm \in DescentChoices(n)}

InitDescent ==
    /\ \E fm \in DescentParents(NumDescentPersons) :
          /\ father = [p \in DescentPersons |-> fm[p][1]]
          /\ mother = [p \in DescentPersons |-> fm[p][2]]
    /\ gender = DescentGender
    /\ spurious = [p \in DescentPersons |-> FALSE]
    /\ exclude_spurious = FALSE
    /\ ParentsResolved
    /\ rels = <<>>
    /\ dob = [p \in DescentPersons |-> 0]
    /\ KinshipIdle
    /\ TermIdle
    /\ LayersIdle
    /\ EdgeIdle
    /\ SessionIdle
    /\ RegistryIdle
    /\ CachedIdle

NextDescent ==
    \/ \E subject \in DescentPersons, include_siblings \in BOOLEAN :
          GetLayersCall(subject, FALSE, include_siblings)
    \/ GetLayersReturn

SpecDescent == InitDescent /\ [][NextDescent]_vars

\* ------------------------------------------- cached properties of a Person
\* Database.get_child_ids: ORDER BY spurious ASC, date_of_birth ASC,
\* person_id ASC.
get_child_ids(id) ==
    SortIds({c \in DOMAIN father : id \in {father[c], mother[c]} /\ ~spurious[c]}) \o
    SortIds({c \in DOMAIN father : id \in {father[c], mother[c]} /\ spurious[c]})

\* Person.children in a session that add_all has not loaded: Family.child_ids
\* is empty and the ids come from Database.get_child_ids.
children_unloaded(o) == sorted(get_child_ids(IdOf(o)))

\* The persons of the sample, of unknown gender: each may be recorded as the
\* father of one person and as the mother of another.
ChildPersons == 1..NumChildPersons

AnyChoices(p) ==
    {fm \in (0..(p - 1)) \X (0..(p - 1)) : fm[1] # None => fm[1] # fm[2]}

RECURSIVE AnyParents(_)
AnyParents(n) ==
    IF n = 0 THEN {<<>>}
    ELSE {Append(g, fm) : g \in AnyParents(n - 1), fm \in AnyChoices(n)}

InitCached ==
    /\ \E fm \in AnyParents(NumChildPersons) :
          /\ father = [p \in ChildPersons |-> fm[p][1]]
          /\ mother = [p \in ChildPersons |-> fm[p][2]]
    /\ gender = [p \in ChildPersons |-> "none"]
    /\ spurious \in [ChildPersons -> BOOLEAN]
    /\ exclude_spurious = FALSE
    /\ ParentsResolved
    /\ rels = <<>>
    /\ dob \in [ChildPersons -> 0..MaxChildDob]
    /\ KinshipIdle
    /\ TermIdle
    /\ LayersIdle
    /\ EdgeIdle
    /\ SessionIdle
    /\ RegistryIdle
    /\ CachedIdle

\* The session reads the properties of one Person, the object that
\* Family.person(self) gave, with or without add_all before.
Reads(self, loaded) ==
    /\ cpc = "idle"
    /\ c_self = None \/ (c_self = self /\ c_loaded = loaded)
    /\ c_self' = self
    /\ c_loaded' = loaded

\* self.children: a cached_property, computed at the first access.
ChildrenRead(self, loaded) ==
    /\ Reads(self, loaded)
    /\ cpc' = "children"
    /\ LET value == IF c_cache.children # Unset THEN c_cache.children
                    ELSE IF loaded THEN children(self, WalkCtx)
                    ELSE children_unloaded(self)
       IN /\ c_cache' = [c_cache EXCEPT !.children = value]
          /\ c_ret' = value
    /\ UNCHANGED <<dbvars, evars, svars, rvars, lvars, kvars, tvars>>

\* The list that self.siblings gives: the cached one, or the one computed
\* now.
SiblingsValue(self) ==
    IF c_cache.siblings # Unset THEN c_cache.siblings ELSE siblings(self)

\* self.siblings
SiblingsRead(self, loaded) ==
    /\ Reads(self, loaded)
    /\ cpc' = "siblings"
    /\ c_cache' = [c_cache EXCEPT !.siblings = SiblingsValue(self)]
    /\ c_ret' = SiblingsValue(self)
    /\ UNCHANGED <<dbvars, evars, svars, rvars, lvars, kvars, tvars>>

\* self.siblings_and_self: at the first access self is appended to the list
\* self.siblings gave, the list the siblings property holds, and the sorted
\* copy is cached and returned.
SiblingsAndSelfRead(self, loaded) ==
    /\ Reads(self, loaded)
    /\ cpc' = "siblings_and_self"
    /\ IF c_cache.siblings_and_self # Unset
         THEN /\ c_ret' = c_cache.siblings_and_self
              /\ UNCHANGED c_cache
         ELSE LET list == Append(SiblingsValue(self), self)
              IN /\ c_cache' = [c_cache EXCEPT !.siblings = list,
                                               !.siblings_and_self = sorted(list)]
                 /\ c_ret' = sorted(list)
    /\ UNCHANGED <<dbvars, evars, svars, rvars, lvars, kvars, tvars>>

\* The caller takes the list.
ReadReturn ==
    /\ cpc # "idle"
    /\ cpc' = "idle"
    /\ c_ret' = <<>>
    /\ UNCHANGED <<dbvars, evars, svars, rvars, lvars, kvars, tvars,
                   c_self, c_loaded, c_cache>>

NextCached ==
    \/ \E self \in ChildPersons, loaded \in BOOLEAN : ChildrenRead(self, loaded)
    \/ \E self \in ChildPersons, loaded \in BOOLEAN : SiblingsRead(self, loaded)
    \/ \E self \in ChildPersons, loaded \in BOOLEAN : SiblingsAndSelfRead(self, loaded)
    \/ ReadReturn

SpecCached == InitCached /\ [][NextCached]_vars

\* Person.get_layers on data that may hold parent cycles.
SpecLayersCyclic == InitCyclic /\ [][NextLayers]_vars

\* Person._add_edge on the layers that appends and earlier calls build.
SpecEdge == InitEdge /\ [][NextEdge]_vars

\* The registry of persons over the operations of a session.
SpecSession == InitSession /\ [][NextSession]_vars

\* ---------------------------------------------------------------------------
\* The relationship registry of a Family and the cache of get_parents_id.

\* The relationship tables of the registry sample: at most MaxRegistryRels
\* marriages, each pair of persons once, person_a_id below person_b_id.
RegistryTables ==
    {t \in UNION {[1..n -> {[a |-> x, b |-> y, type |-> "marriage", end_type |-> "none"] :
                               x \in RegistryPersons, y \in RegistryPersons}] :
                  n \in 0..MaxRegistryRels} :
        /\ \A i \in 1..Len(t) : t[i].a < t[i].b
        /\ NoPairTwice(t)}

\* Family(add_all=True): everybody registered, Family.relationships holding
\* the table's records under (person_a_id, person_b_id), nothing cached.
InitRegistry ==
    /\ father = [p \in Persons |-> None]
    /\ mother = [p \in Persons |-> None]
    /\ gender = GenderTable
    /\ spurious = NoSpurious
    /\ exclude_spurious = FALSE
    /\ ParentsResolved
    /\ rels \in RegistryTables
    /\ dob = NoDob
    /\ KinshipIdle
    /\ TermIdle
    /\ LayersIdle
    /\ EdgeIdle
    /\ SessionIdle
    /\ CachedIdle
    /\ rpc = "idle"
    /\ family_relationships = {[a |-> rels[i].a, b |-> rels[i].b, id |-> i] : i \in 1..Len(rels)}
    /\ memo = {}
    /\ r_father = None /\ r_mother = None /\ r_key = NoKey

\* Family.get_relationship on the session's registry: the id of the
\* Relationship held under the key (a, b), 0 for None.
registered_relationship(a, b) ==
    LET found == {r \in family_relationships : r.a = a /\ r.b = b}
    IN IF found = {} THEN 0 ELSE (CHOOSE r \in found : TRUE).id

\* The uuid4 of a blank record: an id no other relationship has.
Uuid(a, b) == MaxRegistryRels + (a - 1) * NumPersons + b

\* Family.relationship(a, b): the Relationship held under (a, b), else a blank
\* one added under (a, b) by add_relationship.
FamilyRelationship(a, b) ==
    /\ rpc' = "relationship"
    /\ r_father' = a
    /\ r_mother' = b
    /\ IF registered_relationship(a, b) # 0
         THEN /\ family_relationships' = family_relationships
              /\ r_key' = <<"r", registered_relationship(a, b), 0>>
         ELSE /\ family_relationships' =
                    family_relationships \cup {[a |-> a, b |-> b, id |-> Uuid(a, b)]}
              /\ r_key' = <<"r", Uuid(a, b), 0>>
    /\ memo' = memo
    /\ UNCHANGED <<dbvars, cvars, kvars, tvars, lvars, evars, svars>>

\* The body of Family.get_parents_id, on the registry as it is now.
get_parents_id_uncached(fa, mo) ==
    IF fa # None /\ mo # None
      THEN IF registered_relationship(fa, mo) # 0
             THEN <<"r", registered_relationship(fa, mo), 0>>
           ELSE IF registered_relationship(mo, fa) # 0
             THEN <<"r", registered_relationship(mo, fa), 0>>
           ELSE <<"p", fa, mo>>
    ELSE IF fa # None THEN <<"p", fa, 0>>
    ELSE IF mo # None THEN <<"p", 0, mo>>
    ELSE NoKey

\* Family.get_parents_id(father, mother) under lru_cache: the value cached for
\* the two persons if there is one, else the body's value, which is cached.
GetParentsId(fa, mo) ==
    /\ \/ Cardinality(memo) < MaxMemo
       \/ \E e \in memo : e.father = fa /\ e.mother = mo
    /\ rpc' = "get_parents_id"
    /\ r_father' = fa
    /\ r_mother' = mo
    /\ LET hit == {e \in memo : e.father = fa /\ e.mother = mo}
           key == IF hit # {} THEN (CHOOSE e \in hit : TRUE).key
                  ELSE get_parents_id_uncached(fa, mo)
       IN /\ r_key' = key
          /\ memo' = memo \cup {[father |-> fa, mother |-> mo, key |-> key]}
    /\ family_relationships' = family_relationships
    /\ UNCHANGED <<dbvars, cvars, kvars, tvars, lvars, evars, svars>>

\* The calls are made with two different persons, get_parents_id with a
\* father and a mother of whom either may be unknown.
NextRegistry ==
    \/ \E a \in RegistryPersons : \E b \in RegistryPersons \ {a} : FamilyRelationship(a, b)
    \/ \E fa \in RegistryPersons \cup {None} : \E mo \in (RegistryPersons \ {fa}) \cup {None} :
          GetParentsId(fa, mo)

SpecRegistry == InitRegistry /\ [][NextRegistry]_vars

\* ---------------------------------------------------------------------------
\* A session that excludes the spurious persons.

\* Well-formed data of NumSpuriousPersons persons, any of them flagged
\* spurious, with relationships; the configuration excludes distant history.
InitSpurious ==
    /\ \E fm \in AcyclicParents(NumSpuriousPersons) :
          /\ father = [p \in Persons |-> IF p \in SpuriousPersons THEN fm[p][1] ELSE None]
          /\ mother = [p \in Persons |-> IF p \in SpuriousPersons THEN fm[p][2] ELSE None]
    /\ gender = GenderTable
    /\ spurious \in {f \in [Persons -> BOOLEAN] : \A p \in Persons \ SpuriousPersons : ~f[p]}
    /\ exclude_spurious = TRUE
    /\ ParentsResolved
    /\ rels \in {t \in LayerRelTables(MaxSpuriousRels) :
                    NoPairTwice(t) /\ \A i \in 1..Len(t) : t[i].a < t[i].b}
    /\ dob = NoDob
    /\ KinshipIdle
    /\ TermIdle
    /\ LayersIdle
    /\ EdgeIdle
    /\ SessionIdle
    /\ RegistryIdle
    /\ CachedIdle

\* subject.get_ancestor_layers(), the whole call on the freshly loaded
\* Family.
GetAncestorLayersCall(subject) ==
    /\ lpc = "idle"
    /\ lpc' = "ancestors"
    /\ l_subject' = subject
    /\ l_partners' = FALSE
    /\ l_siblings' = FALSE
    /\ LET got == get_ancestor_layers(subject)
       IN /\ layers' = got.layers
          /\ n_anc' = Len(got.layers)
          /\ lerr' = got.err
    /\ UNCHANGED <<dbvars, cvars, evars, svars, rvars, kvars, tvars>>

\* The caller drops the ancestor layers.
GetAncestorLayersReturn ==
    /\ lpc = "ancestors"
    /\ lpc' = "idle"
    /\ l_subject' = None
    /\ l_partners' = FALSE /\ l_siblings' = FALSE
    /\ layers' = <<>> /\ n_anc' = 0 /\ lerr' = ""
    /\ UNCHANGED <<dbvars, cvars, evars, svars, rvars, kvars, tvars>>

\* The persons add_all registers: the calls are made on them, Family.person
\* raising SpuriousConnection for any other.
Sound == {p \in SpuriousPersons : Found(p)}

\* The session makes one call at a time.
NextSpurious ==
    \/ \E subject \in Sound, include_partners \in BOOLEAN,
          include_siblings \in BOOLEAN :
            pc = "idle" /\ GetLayersCall(subject, include_partners, include_siblings)
    \/ GetLayersReturn
    \/ \E subject \in Sound : pc = "idle" /\ GetAncestorLayersCall(subject)
    \/ GetAncestorLayersReturn
    \/ \E a \in Sound, b \in Sound : lpc = "idle" /\ KinshipCall(a, b)
    \/ KinshipIterate
    \/ KinshipReturn

SpecSpurious == InitSpurious /\ [][NextSpurious]_vars

\* ------------------------------------------------ reference definitions
\* The set of recorded parents of the members of S.
ParentsOf(S) == ({Father(p) : p \in S} \cup {Mother(p) : p \in S}) \ {None}

\* The least number of parent-steps from p up to x; -1 when x is not
\* reachable from p.
RECURSIVE StepsFrom(_, _, _, _)
StepsFrom(S, seen, x, d) ==
    IF x \in S THEN d
    ELSE IF S \subseteq seen THEN -1
    ELSE StepsFrom(ParentsOf(S), seen \cup S, x, d + 1)

Steps(p, x) == StepsFrom({p}, {}, x, 0)

AncestorsOrSelf(p) == {x \in Persons : Steps(p, x) >= 0}
Ancestors(p) == UNION {AncestorsOrSelf(q) : q \in ParentsOf({p})}
CommonAncestors(a, b) == Ancestors(a) \cap Ancestors(b)

ReturnedKinship == pc = "done" /\ result # <<>>

\* ------------------------------------------------------------------ claims
\* C1: for any two persons A and B, kinship(A, B) and kinship(B, A) are both
\* None, or name the same common ancestor and the same degree with the
\* generation difference of one the negation of the other's.
KinshipSymmetric ==
    pc = "done" =>
        LET back == kinship(person_b, person_a)
        IN IF result = <<>> THEN back = <<>>
           ELSE /\ back # <<>>
                /\ back[1] = result[1]
                /\ back[2] = result[2]
                /\ back[3] = 0 - result[3]

\* C2: in every layer returned by Person.get_layers, whatever the subject and
\* the options include_partners and include_siblings, every recorded edge
\* (left, right) has right at the index of left plus 1 in the layer's people
\* list.
EdgesAdjacent ==
    (lpc = "done" /\ lerr = "") =>
        \A i \in 1..Len(layers) : \A e \in 1..Len(layers[i].edges) :
            LET at == IndexOf(layers[i].people, layers[i].edges[e].left)
            IN /\ at # 0
               /\ IndexOf(layers[i].people, layers[i].edges[e].right) = at + 1

\* C3: the ancestor kinship(A, B) returns is a nearest common ancestor: no
\* other common ancestor is at most as many parent-steps from A and from B
\* and strictly fewer from one of them.
KinshipNearest ==
    ReturnedKinship =>
        \A x \in CommonAncestors(person_a, person_b) \ {result[1]} :
            ~ /\ Steps(person_a, x) <= Steps(person_a, result[1])
              /\ Steps(person_b, x) <= Steps(person_b, result[1])
              /\ \/ Steps(person_a, x) < Steps(person_a, result[1])
                 \/ Steps(person_b, x) < Steps(person_b, result[1])

\* C4: on an acyclic graph kinship(A, B) is None exactly when A and B have
\* no common ancestor-or-self, also when one side ran out of parents before
\* the other side reached the common ancestor.
KinshipNoneIffUnrelated ==
    pc = "done" =>
        (result = <<>> <=>
            AncestorsOrSelf(person_a) \cap AncestorsOrSelf(person_b) = {})

\* C4 witness: a common ancestor found after one side had run out of
\* parents and the other side had expanded further.
KinshipFoundAfterExhaustion ==
    /\ ReturnedKinship
    /\ \/ a_done /\ Len(b_ancs) > Len(a_ancs) + 1
       \/ b_done /\ Len(a_ancs) > Len(b_ancs) + 1

\* C5: kinship(P, P) is (P, 0, 0) for every person P, and P.kinship_term(P)
\* is 'self'.
KinshipSelf ==
    (tpc = "done" /\ t_self = t_person) =>
        /\ kinship(t_self, t_person) = <<t_self, 0, 0>>
        /\ term = "self"

\* C5 witness: kinship_term has been called on a person and that person.
TermOfSelfCalled == tpc = "done" /\ t_self = t_person /\ t_self # None

\* C6: for a person C and a recorded parent F of C, kinship(C, F) is
\* (F, 0, 1) and C.kinship_term(F) is 'father', 'mother' or 'parent' by
\* F's gender.
ParentWord(g) ==
    CASE g = "male" -> "father" [] g = "female" -> "mother" [] OTHER -> "parent"

KinshipOfParent ==
    (tpc = "done" /\ t_person \in ParentsOf({t_self})) =>
        /\ kinship(t_self, t_person) = <<t_person, 0, 1>>
        /\ term = ParentWord(gender[t_person])

\* C7: two distinct persons sharing both parents have degree 1 and
\* generation difference 0; two persons sharing exactly one parent have
\* degree 1 and generation difference 0 with the shared parent as the
\* common ancestor.
SharedParents(a, b) == ParentsOf({a}) \cap ParentsOf({b})
ShareBothParents(a, b) ==
    /\ a # b
    /\ Cardinality(ParentsOf({a})) = 2
    /\ ParentsOf({a}) = ParentsOf({b})
ShareOneParent(a, b) == a # b /\ Cardinality(SharedParents(a, b)) = 1

SiblingKinship(a, b, res) ==
    /\ ShareBothParents(a, b) => (res # <<>> /\ res[2] = 1 /\ res[3] = 0)
    /\ ShareOneParent(a, b) =>
          (res # <<>> /\ res[2] = 1 /\ res[3] = 0 /\ res[1] \in SharedParents(a, b))

KinshipOfSiblings ==
    pc = "done" => SiblingKinship(person_a, person_b, result)

\* C7 as amended: the same, for persons A and B where B is not a recorded
\* parent of A.
KinshipOfSiblingsNotParent ==
    (pc = "done" /\ person_b \notin ParentsOf({person_a}))
        => SiblingKinship(person_a, person_b, result)

\* C7 witness: kinship has returned for two half-siblings of whom one is
\* no parent of the other.
HalfSiblingsCompared ==
    /\ pc = "done"
    /\ ShareOneParent(person_a, person_b)
    /\ person_b \notin ParentsOf({person_a})
    /\ Cardinality(ParentsOf({person_a})) = 2
    /\ Cardinality(ParentsOf({person_b})) = 2

RECURSIVE FirstRelated(_, _, _)
FirstRelated(relseq, other, partnerFirst) ==
    IF relseq = <<>> THEN <<>>
    ELSE LET k == IF partnerFirst THEN kinship(Head(relseq).partner, other)
                  ELSE kinship(other, Head(relseq).partner)
         IN IF k # <<>> THEN <<Head(relseq)>>
            ELSE FirstRelated(Tail(relseq), other, partnerFirst)

\* The term that one relationship alone gives: of A's partner against B,
\* and of B's partner against A.
TermViaOwnPartner(rel, self, person) ==
    LET o == SelfPartnersLoop(<<rel>>, person)
    IN FinishTerm(o.owner, o.term, "", o.kinship[2], o.kinship[3], gender[person])

TermViaOtherPartner(rel, self, person) ==
    LET o == PersonPartnersLoop(<<rel>>, self, person,
                                [kinship |-> <<>>, term |-> "", owned |-> ""])
    IN FinishTerm("", o.term, o.owned, o.kinship[2], o.kinship[3], gender[person])

FirstPartnerDecides ==
    (tpc = "done" /\ kinship(t_self, t_person) = <<>>) =>
        LET own == FirstRelated(relationships(t_self), t_person, TRUE)
            other == FirstRelated(relationships(t_person), t_self, FALSE)
        IN IF own # <<>>
             THEN term = TermViaOwnPartner(own[1], t_self, t_person)
           ELSE IF other # <<>>
             THEN term = TermViaOtherPartner(other[1], t_self, t_person)
           ELSE term = "no blood relation"

\* C10: kinship terminates on every finite graph, cycles included: a person
\* met a second time has no further parents, so a side never holds more
\* layers than one per person above the first.
KinshipLayersBounded ==
    /\ Len(a_ancs) <= NumPersons + 1
    /\ Len(b_ancs) <= NumPersons + 1

\* C11: Person.get_layers, the ancestor walk followed by the descendant walk,
\* terminates for every finite graph, a graph with a parent/child cycle
\* included: no call ends in a recursion without end.
LayersTerminate == lpc = "done" => lerr # "RecursionError"

\* C14: for a subject A with father F and mother M, both without known
\* parents, and a full sibling S, A.get_layers(include_siblings=True) yields
\* exactly one ancestor layer, whose people are F and M, with exactly one
\* edge (F, M) under A's parents-unit key, and a generation-0 layer whose
\* group under that key holds exactly A and its full siblings.
SiblingScenario(a) ==
    /\ father[a] # None /\ mother[a] # None
    /\ ParentsOf({father[a], mother[a]}) = {}
    /\ SiblingIds(a) # {}
    /\ \A s \in SiblingIds(a) : father[s] = father[a] /\ mother[s] = mother[a]

SiblingScenarioCalled ==
    /\ lpc = "done" /\ l_siblings /\ ~l_partners
    /\ SiblingScenario(l_subject)

SiblingLayers ==
    SiblingScenarioCalled =>
        /\ lerr = ""
        /\ n_anc = 1
        /\ layers[1].people \in {<<father[l_subject], mother[l_subject]>>,
                                 <<mother[l_subject], father[l_subject]>>}
        /\ layers[1].edges = <<[id |-> parents_id(l_subject, WalkCtx),
                                left |-> father[l_subject],
                                right |-> mother[l_subject]]>>
        /\ LET group == GroupMembers(layers[2], parents_id(l_subject, WalkCtx))
           IN /\ {IdOf(group[i]) : i \in 1..Len(group)} =
                     {l_subject} \cup SiblingIds(l_subject)
              /\ Len(group) = 1 + Cardinality(SiblingIds(l_subject))

\* C14 witness: the call has returned for a subject with two parentless
\* parents and a full sibling.
SiblingLayersReturned == SiblingScenarioCalled /\ lerr = ""

\* C15: in any layer produced by Person.get_layers two half-siblings, persons
\* sharing exactly one parent (Database.get_half_siblings), are never members
\* of the same group.
HalfSiblings(a, b) ==
    \/ father[a] # None /\ father[a] = father[b] /\ mother[a] # mother[b]
    \/ mother[a] # None /\ mother[a] = mother[b] /\ father[a] # father[b]

HalfSiblingsApart ==
    (lpc = "done" /\ lerr = "") =>
        \A i \in 1..Len(layers) : \A g \in 1..Len(layers[i].groups) :
            \A x, y \in SeqToSet(layers[i].groups[g].members) :
                ~HalfSiblings(IdOf(x), IdOf(y))

\* C15 witness: a layer of the returned layers holds two half-siblings.
HalfSiblingsInLayer ==
    /\ lpc = "done" /\ lerr = ""
    /\ \E i \in 1..Len(layers) :
          \E x, y \in SeqToSet(layers[i].people) :
              x # None /\ y # None /\ HalfSiblings(IdOf(x), IdOf(y))

\* C17: a person with neither parent known has a null parents-unit key, and
\* in the generation-0 layer that Person.get_layers returns with default
\* options no group holds two distinct persons who both have no known parent.
Parentless(p) == father[p] = None /\ mother[p] = None

RootsApart ==
    /\ \A p \in Persons : Parentless(p) => parents_id(p, WalkCtx) = NoKey
    /\ (lpc = "done" /\ lerr = "" /\ ~l_partners /\ ~l_siblings) =>
          \A g \in 1..Len(layers[n_anc + 1].groups) :
              \A x, y \in SeqToSet(layers[n_anc + 1].groups[g].members) :
                  (Parentless(IdOf(x)) /\ Parentless(IdOf(y))) => IdOf(x) = IdOf(y)

\* C20: calling Person._add_edge a second time on the same layer with the
\* same pair of persons, in the same or the reversed order, changes neither
\* the layer's edges nor its people list: the number of edges does not grow.
AddEdgeAgain(fa, mo) == add_edge(e_layer, e_id, fa, mo).layer

AddEdgeIdempotent ==
    (epc = "done" /\ e_err = "") =>
        /\ AddEdgeAgain(e_father, e_mother) = e_layer
        /\ AddEdgeAgain(e_mother, e_father) = e_layer

\* C20 witness: a call has added an edge to a layer that held another edge
\* of one of the two persons.
EdgeAddedToChain ==
    /\ epc = "done" /\ e_err = "" /\ e_ret
    /\ Len(e_layer.edges) = 2
    /\ \E i \in 1..2 : {e_layer.edges[i].left, e_layer.edges[i].right} =
                           {e_father, e_mother}
    /\ {e_layer.edges[1].left, e_layer.edges[1].right} \cap
       {e_layer.edges[2].left, e_layer.edges[2].right} # {}

\* C12: within one Family session, after any sequence of the operations
\* person, add_all, kinship, kinship_term, siblings and get_layers, every call
\* Family.person(id) returns the identical Person object that the first such
\* call with the id returned.
PersonIdentical == spc = "person" => s_ret = first_person[s_id]

\* C13: after any sequence of Family.relationship(a, b) calls, the persons
\* given in either order, Family.relationships holds at most one Relationship
\* for each unordered pair of persons.
OnePerPair ==
    \A x \in family_relationships, y \in family_relationships :
        {x.a, x.b} = {y.a, y.b} => x = y

\* C16: Family.get_parents_id(father, mother) returns the key of the
\* relationship registered for the two under either role order; otherwise,
\* both parents known, the key of the two person ids; with one parent known
\* the key of that parent's id and the placeholder; the registry being the
\* one the session holds when the call is made.
ParentsIdOfRegistry ==
    rpc = "get_parents_id" => r_key = get_parents_id_uncached(r_father, r_mother)

\* C18: with the exclusion of spurious persons enabled, Person.get_layers of a
\* person who is not spurious never fails with SpuriousConnection.
NoSpuriousConnection ==
    lpc = "done" => lerr # "SpuriousConnection"

\* The parents recorded for a person that are not spurious.
SoundParents(p) == {q \in {father[IdOf(p)], mother[IdOf(p)]} \ {None} : ~spurious[q]}

\* The layers of a walk towards the ancestors, the nearest first: no layer
\* holds a spurious person, and the parents of a layer's persons that are not
\* spurious are all in the next layer, where the walk has built one.
BranchesCut(walk) ==
    /\ \A i \in 1..Len(walk) : \A q \in walk[i] : ~spurious[IdOf(q)]
    /\ \A i \in 1..(Len(walk) - 1) : \A q \in walk[i] : SoundParents(q) \subseteq walk[i + 1]

\* The parents_id of the persons a layer holds name no spurious person:
\* parents_id is made of father and mother, None leaving the 'x' (0).
NoSpuriousParent(layer) ==
    \A g \in 1..Len(layer.groups) :
        layer.groups[g].key[1] = "p" =>
            /\ layer.groups[g].key[2] # 0 => ~spurious[layer.groups[g].key[2]]
            /\ layer.groups[g].key[3] # 0 => ~spurious[layer.groups[g].key[3]]

\* C19: with the exclusion of spurious persons enabled, father and mother of a
\* person whose recorded parent is spurious are None and nothing is raised:
\* the ancestor walk of get_ancestor_layers and the search of kinship stop at
\* a spurious parent and go on with every parent that is not spurious, and
\* no person of the layers of get_layers has a spurious father or mother.
SpuriousBranchCut ==
    /\ lpc = "done" /\ lerr = "" => \A i \in 1..Len(layers) : NoSpuriousParent(layers[i])
    /\ lpc = "ancestors" =>
          /\ lerr = ""
          /\ BranchesCut(<<{l_subject}>> \o
                         [i \in 1..Len(layers) |->
                             SeqToSet(layers[Len(layers) + 1 - i].people)] \o
                         <<{}>>)
    /\ pc \in {"loop", "done"} =>
          /\ BranchesCut([i \in 1..Len(a_ancs) |-> SeqToSet(a_ancs[i])])
          /\ BranchesCut([i \in 1..Len(b_ancs) |-> SeqToSet(b_ancs[i])])

\* The layer has an edge of left and right; the person is the left member of
\* an edge of the layer and the right member of an edge of it.
HasEdge(layer, left, right) ==
    \E i \in 1..Len(layer.edges) :
        layer.edges[i].left = left /\ layer.edges[i].right = right

OnBothSides(layer, p) ==
    /\ \E i \in 1..Len(layer.edges) : layer.edges[i].left = p
    /\ \E i \in 1..Len(layer.edges) : layer.edges[i].right = p

\* C23: a call of Person._add_edge for a pair the layer has no edge of, made
\* when the father or the mother is the left member of one edge and the right
\* member of another, returns False and leaves the layer's edges and people
\* as they were.
RejectedUnchanged ==
    [][(/\ epc' = "done"
        /\ ~HasEdge(e_layer, e_father', e_mother')
        /\ ~HasEdge(e_layer, e_mother', e_father')
        /\ OnBothSides(e_layer, e_father') \/ OnBothSides(e_layer, e_mother'))
       => (e_ret' = FALSE /\ e_err' = "" /\ e_layer' = e_layer)]_vars

\* C23 witness: a call was rejected for the mother's two edges, the father
\* being free.
EdgeRejected ==
    /\ epc = "done" /\ ~e_ret /\ e_err = ""
    /\ ~HasEdge(e_layer, e_father, e_mother)
    /\ ~HasEdge(e_layer, e_mother, e_father)
    /\ e_mother # None /\ OnBothSides(e_layer, e_mother)
    /\ ~OnBothSides(e_layer, e_father)

\* C24: after any sequence of Person._add_edge calls on a layer every person
\* is the left member of at most one edge of the layer and the right member
\* of at most one.
OneEdgePerSide ==
    \A p \in EdgePersons :
        /\ Cardinality({i \in 1..Len(e_layer.edges) : e_layer.edges[i].left = p}) <= 1
        /\ Cardinality({i \in 1..Len(e_layer.edges) : e_layer.edges[i].right = p}) <= 1

\* The persons d parent-steps above p, along any line of parents.
RECURSIVE AtDepth(_, _)
AtDepth(p, d) == IF d = 0 THEN {p} ELSE ParentsOf(AtDepth(p, d - 1))

Larger(i, j) == IF i < j THEN j ELSE i

\* The depths above A and above B that a returned degree and generation
\* difference stand for.
ReturnedDepthA == IF result[3] >= 0 THEN result[2] + result[3] ELSE result[2]
ReturnedDepthB == IF result[3] >= 0 THEN result[2] ELSE result[2] - result[3]

\* C29: when kinship(A, B) returns an ancestor, the degree and the
\* generation difference are the lesser and the difference of two depths
\* dA and dB at which that ancestor lies above A and above B, and no person
\* lies above (or is) A and B at depths whose larger is less than the
\* larger of dA and dB.
KinshipDepthsMinimal ==
    ReturnedKinship =>
        /\ result[2] >= 0
        /\ result[1] \in AtDepth(person_a, ReturnedDepthA)
        /\ result[1] \in AtDepth(person_b, ReturnedDepthB)
        /\ \A i \in 0..NumPersons, j \in 0..NumPersons :
              AtDepth(person_a, i) \cap AtDepth(person_b, j) # {}
                  => Larger(i, j) >= Larger(ReturnedDepthA, ReturnedDepthB)

\* C29 witness: the returned ancestor lies at different depths above A and
\* above B, both parents' lines being walked, while another common ancestor
\* is met only deeper.
KinshipDeeperAncestorPassed ==
    /\ ReturnedKinship
    /\ ReturnedDepthA > 0 /\ ReturnedDepthB > 0
    /\ ReturnedDepthA # ReturnedDepthB
    /\ \E y \in CommonAncestors(person_a, person_b) \ {result[1]} :
          \A i \in 0..NumPersons, j \in 0..NumPersons :
              (y \in AtDepth(person_a, i) /\ y \in AtDepth(person_b, j))
                  => Larger(i, j) > Larger(ReturnedDepthA, ReturnedDepthB)

\* C27: Person.get_layers completes without error for every subject of an
\* acyclic graph, a subject or included sibling with exactly one known
\* parent too, and no people list and no group of a returned layer holds a
\* null person.
LayersWithoutError ==
    lpc = "done" =>
        /\ lerr = ""
        /\ \A i \in 1..Len(layers) :
              /\ None \notin SeqToSet(layers[i].people)
              /\ \A g \in 1..Len(layers[i].groups) :
                    None \notin SeqToSet(layers[i].groups[g].members)

\* The number of places a person holds in the groups of a layer.
RECURSIVE GroupPlaces(_, _)
GroupPlaces(groups, o) ==
    IF groups = <<>> THEN 0
    ELSE Len(SelectSeq(Head(groups).members, LAMBDA x : x = o))
             + GroupPlaces(Tail(groups), o)

\* C28: in every layer returned by Person.get_layers, whatever the options
\* include_partners and include_siblings, each person of the people list is
\* a member of exactly one of the layer's groups, and every member of a
\* group is in the people list.
PeopleGrouped ==
    (lpc = "done" /\ lerr = "") =>
        \A i \in 1..Len(layers) :
            /\ \A o \in SeqToSet(layers[i].people) :
                  GroupPlaces(layers[i].groups, o) = 1
            /\ \A g \in 1..Len(layers[i].groups) :
                  SeqToSet(layers[i].groups[g].members) \subseteq
                      SeqToSet(layers[i].people)

\* The persons with a recorded parent among the members of S.
KidsOf(S) == {c \in DOMAIN father : Father(c) \in S \/ Mother(c) \in S}

\* The persons k child-steps below a member of S, along any line.
RECURSIVE BelowAt(_, _)
BelowAt(S, k) == IF k = 0 THEN S ELSE KidsOf(BelowAt(S, k - 1))

\* The persons the descendant walk of the call starts from.
WalkedFrom ==
    IF l_siblings THEN {l_subject} \cup SiblingIds(l_subject) ELSE {l_subject}

\* C25: after Person.get_layers, for every descendant placed in a layer
\* below the subject's whose father and mother are both known, the layer
\* directly above holds an edge joining father and mother under the
\* child's parents-unit key, with or without a relationship record.
ParentsJoinedAbove ==
    (lpc = "done" /\ lerr = "") =>
        \A k \in 1..(Len(layers) - n_anc - 1) :
            \A c \in SeqToSet(layers[n_anc + 1 + k].people) :
                (/\ IdOf(c) \in BelowAt(WalkedFrom, k)
                 /\ Father(IdOf(c)) # None
                 /\ Mother(IdOf(c)) # None)
                    => \E e \in 1..Len(layers[n_anc + k].edges) :
                          LET edge == layers[n_anc + k].edges[e]
                          IN /\ edge.id = parents_id(c, WalkCtx)
                             /\ {IdOf(edge.left), IdOf(edge.right)} =
                                    {Father(IdOf(c)), Mother(IdOf(c))}

\* The ids of the persons in layer k below the subject's layer.
IdsBelow(k) ==
    IF n_anc + 1 + k > Len(layers) THEN {}
    ELSE {IdOf(o) : o \in SeqToSet(layers[n_anc + 1 + k].people) \ {None}}

\* C30: on an acyclic graph every descendant of the subject is in the layers
\* Person.get_layers returns, in a layer whose index below the subject's is
\* one of the descendant's generation distances from the subject, also when
\* two descendants of the subject have a child together.
DescendantsPlaced ==
    (lpc = "done" /\ lerr = "") =>
        \A k \in 1..NumDescentPersons :
            \A d \in BelowAt({l_subject}, k) :
                \E j \in 1..NumDescentPersons :
                    d \in BelowAt({l_subject}, j) /\ d \in IdsBelow(j)

\* The greatest generation distance of a known ancestor of p; 0 without a
\* known parent.  A known parent is one Person.father or Person.mother
\* gives: a spurious parent is none while the session excludes them.
RECURSIVE DeepestFrom(_, _)
DeepestFrom(S, d) ==
    IF ParentsOf(S) = {} THEN d ELSE DeepestFrom(ParentsOf(S), d + 1)

AncestorDepth(p) == DeepestFrom({p}, 0)

\* C26: on an acyclic graph Person.get_ancestor_layers returns as many
\* layers as the greatest generation distance of a known ancestor of the
\* subject (none without a known parent); no returned layer is empty, and
\* the k-th layer from the end holds exactly the ancestors at generation
\* distance k, each of them once.
AncestorLayersExact ==
    lpc = "ancestors" =>
        /\ lerr = ""
        /\ Len(layers) = AncestorDepth(l_subject)
        /\ \A k \in 1..Len(layers) :
              LET people == layers[Len(layers) + 1 - k].people
              IN /\ people # <<>>
                 /\ SeqToSet(people) = AtDepth(l_subject, k)
                 /\ Len(people) = Cardinality(SeqToSet(people))

\* C26 witness: the walk has returned two layers or more for a subject one
\* of whose parents has no known parent, the other parent having one.
AncestorLayersUneven ==
    /\ lpc = "ancestors" /\ lerr = ""
    /\ Len(layers) >= 2
    /\ \E x \in ParentsOf({l_subject}) : ParentsOf({x}) = {}

\* x may stand before y in a list ordered by date of birth, the unknown dates
\* last and equal known dates by ascending id.
InBirthOrder(x, y) ==
    IF dob[x] = 0 THEN dob[y] = 0
    ELSE \/ dob[y] = 0
         \/ dob[x] < dob[y]
         \/ dob[x] = dob[y] /\ x < y

\* C22: Person.children returns the children by ascending date of birth,
\* those of unknown date after all dated ones, and those with equal dates by
\* ascending id.
ChildrenInBirthOrder ==
    cpc = "children" =>
        \A i \in 1..Len(c_ret) : \A j \in (i + 1)..Len(c_ret) :
            InBirthOrder(IdOf(c_ret[i]), IdOf(c_ret[j]))

\* C21: at every point of a session, also after siblings_and_self was
\* evaluated for a person, the list the person's siblings property holds
\* does not contain the person.
SiblingsWithoutSelf ==
    c_cache.siblings # Unset =>
        \A i \in 1..Len(c_cache.siblings) : c_cache.siblings[i] # c_self

====
